---- MODULE Spec2Model ----
(***************************************************************************)
(* A model of smcr, a layer-7 router for the Minecraft handshake.          *)
(*                                                                         *)
(* Go strings are byte strings: a string is modelled as a sequence of      *)
(* byte values 0..255, so that lowercasing, trimming, splitting and the    *)
(* decimal rendering of a port are computed byte by byte, as the code      *)
(* computes them.                                                          *)
(***************************************************************************)
EXTENDS Integers, Sequences, FiniteSets, TLC

VARIABLES
    config,           \* the prepared Config: Routes, routeMap, defaultRoute
    lookup,           \* the last RouteFor call, [h, p, r] (or the empty record)
    stream,           \* the bytes the client has sent and the router has not read
    parsed,           \* the outcome of ReadHandshakePacket
    pc,               \* handleConnection: where the handler goroutine is
    timer,            \* deadlineTimer and its callback
    handshakeTimeout, \* the latch the callback sets
    clientConn,       \* closeClientConn's once and the Close calls on the client socket
    targetConn,       \* closeTargetConn's once and the Close calls on the upstream socket
    dialed,           \* net.DialTimeout has returned a connection
    hs,               \* handshakePacket, as the handler holds it
    hostnameTail,     \* rawHostname[len(hostname):]
    exit,             \* what led to the disconnect or to the end: a path name
    clientOut,        \* what the router did on the client socket, in order
    upstreamOut,      \* what the router wrote to the upstream socket, in order
    fwd,              \* the two copy goroutines of forward()
    served,           \* bytes of upstream data copied to the client
    resolution,       \* resolveTarget: the SRV answer it got and what it returned
    logged,           \* the error and debug messages logged, by name
    router            \* main, MinecraftRouter.Run and its goroutines

routingVars == <<config, lookup>>
codecVars == <<stream, parsed>>
connVars == <<pc, timer, handshakeTimeout, clientConn, targetConn, dialed, hs,
              hostnameTail, exit, clientOut, upstreamOut, fwd, served, resolution, logged>>

vars == <<config, lookup, stream, parsed, pc, timer, handshakeTimeout, clientConn,
          targetConn, dialed, hs, hostnameTail, exit, clientOut, upstreamOut, fwd, served,
          resolution, logged, router>>

----------------------------------------------------------------------------
(* Bytes and strings *)

Dot == 46
Colon == 58
NUL == 0

\* strings.ToLower on an ASCII string: 'A'..'Z' are moved to 'a'..'z'.
ToLowerByte(b) == IF b >= 65 /\ b <= 90 THEN b + 32 ELSE b

ToLower(s) == [i \in 1..Len(s) |-> ToLowerByte(s[i])]

\* strings.TrimRight(s, cutset) for a one-byte cutset: every trailing c goes.
RECURSIVE TrimRight(_, _)
TrimRight(s, c) ==
    IF Len(s) > 0 /\ s[Len(s)] = c
    THEN TrimRight(SubSeq(s, 1, Len(s) - 1), c)
    ELSE s

\* strings.IndexByte / strings.LastIndexByte, 1-based, 0 when absent.
IndexByte(s, c) ==
    IF \E i \in 1..Len(s) : s[i] = c
    THEN CHOOSE i \in 1..Len(s) : s[i] = c /\ \A j \in 1..(i - 1) : s[j] # c
    ELSE 0

LastIndexByte(s, c) ==
    IF \E i \in 1..Len(s) : s[i] = c
    THEN CHOOSE i \in 1..Len(s) : s[i] = c /\ \A j \in (i + 1)..Len(s) : s[j] # c
    ELSE 0

Contains(s, c) == \E i \in 1..Len(s) : s[i] = c

\* fmt.Sprintf("%d", n) for n >= 0: the decimal digits of n.
RECURSIVE Itoa(_)
Itoa(n) == IF n < 10 THEN <<48 + n>> ELSE Itoa(n \div 10) \o <<48 + (n % 10)>>

\* fmt.Sprintf("%s:%d", hostname, port)
FormatAddress(hostname, port) == hostname \o <<Colon>> \o Itoa(port)

\* net.SplitHostPort: [ok, host, port]; 91 and 93 are '[' and ']'.
SplitHostPort(hostport) ==
    LET n == Len(hostport)
        i == LastIndexByte(hostport, Colon)
        fail == [ok |-> FALSE, host |-> <<>>, port |-> <<>>]
    IN  IF i = 0 THEN fail                                   \* missing port
        ELSE IF hostport[1] = 91
        THEN LET end == IndexByte(hostport, 93)
             IN  IF end = 0 THEN fail                        \* missing ']'
                 ELSE IF end + 1 # i THEN fail               \* missing port / too many colons
                 ELSE IF Contains(SubSeq(hostport, 2, n), 91) THEN fail
                 ELSE IF Contains(SubSeq(hostport, end + 1, n), 93) THEN fail
                 ELSE [ok |-> TRUE, host |-> SubSeq(hostport, 2, end - 1),
                       port |-> SubSeq(hostport, i + 1, n)]
        ELSE LET host == SubSeq(hostport, 1, i - 1)
             IN  IF Contains(host, Colon) THEN fail          \* too many colons
                 ELSE IF Contains(hostport, 91) THEN fail
                 ELSE IF Contains(hostport, 93) THEN fail
                 ELSE [ok |-> TRUE, host |-> host, port |-> SubSeq(hostport, i + 1, n)]

----------------------------------------------------------------------------
(* config: Route, Config.Init *)

DefaultRouteName == "default"
Forward == "forward"
Reject == "reject"

HexDigit(d) == IF d < 10 THEN 48 + d ELSE 87 + d

\* json.Marshal of a string, byte by byte (ASCII): the escapes of encoding/json.
JsonEscapeByte(b) ==
    IF b = 34 THEN <<92, 34>>
    ELSE IF b = 92 THEN <<92, 92>>
    ELSE IF b = 10 THEN <<92, 110>>
    ELSE IF b = 13 THEN <<92, 114>>
    ELSE IF b = 9 THEN <<92, 116>>
    ELSE IF b < 32 \/ b = 60 \/ b = 62 \/ b = 38
         THEN <<92, 117, 48, 48, HexDigit(b \div 16), HexDigit(b % 16)>>
    ELSE <<b>>

RECURSIVE JsonEscape(_)
JsonEscape(s) == IF s = <<>> THEN <<>> ELSE JsonEscapeByte(Head(s)) \o JsonEscape(Tail(s))

JsonMarshalString(s) == <<34>> \o JsonEscape(s) \o <<34>>

IsDigits(s) == Len(s) > 0 /\ \A i \in 1..Len(s) : s[i] >= 48 /\ s[i] <= 57

\* The result of a call is bound once, as the element of a singleton set, and
\* then used: The({ f(r) : r \in {call} }) is "r := call; f(r)".
The(S) == CHOOSE y \in S : TRUE

\* The JSON grammar that json.Unmarshal(msg, &json.RawMessage{}) checks. Every
\* ...End operator takes the position where an element starts and gives the
\* position after it, 0 when there is no such element there.
SkipSpace(s, i) ==
    IF \E k \in i..Len(s) : s[k] \notin {32, 9, 10, 13}
    THEN CHOOSE k \in i..Len(s) :
            /\ s[k] \notin {32, 9, 10, 13}
            /\ \A m \in i..(k - 1) : s[m] \in {32, 9, 10, 13}
    ELSE Len(s) + 1

IsDigit(b) == b >= 48 /\ b <= 57

IsHex(b) == IsDigit(b) \/ (b >= 97 /\ b <= 102) \/ (b >= 65 /\ b <= 70)

\* The position after a run of digits that starts at i (i itself when none).
DigitsEnd(s, i) ==
    IF \E k \in i..Len(s) : ~IsDigit(s[k])
    THEN CHOOSE k \in i..Len(s) : ~IsDigit(s[k]) /\ \A m \in i..(k - 1) : IsDigit(s[m])
    ELSE IF i > Len(s) THEN i ELSE Len(s) + 1

\* A string, from the position after its opening quote.
RECURSIVE JsonStringEnd(_, _)
JsonStringEnd(s, i) ==
    IF i > Len(s) THEN 0
    ELSE IF s[i] = 34 THEN i + 1
    ELSE IF s[i] = 92
    THEN IF i + 1 > Len(s) THEN 0
         ELSE IF s[i + 1] \in {34, 92, 47, 98, 102, 110, 114, 116}
         THEN JsonStringEnd(s, i + 2)
         ELSE IF s[i + 1] = 117 /\ i + 5 <= Len(s) /\ \A k \in 2..5 : IsHex(s[i + k])
         THEN JsonStringEnd(s, i + 6)
         ELSE 0
    ELSE IF s[i] < 32 THEN 0
    ELSE JsonStringEnd(s, i + 1)

\* The fraction and the exponent of a number, from the position after its
\* integer part.
JsonFractionEnd(s, i) ==
    IF i <= Len(s) /\ s[i] = 46
    THEN IF DigitsEnd(s, i + 1) = i + 1 THEN 0 ELSE DigitsEnd(s, i + 1)
    ELSE i

JsonExponentEnd(s, i) ==
    IF i = 0 THEN 0
    ELSE IF i <= Len(s) /\ s[i] \in {101, 69}
    THEN The({ IF DigitsEnd(s, e) = e THEN 0 ELSE DigitsEnd(s, e)
               : e \in {IF i + 1 <= Len(s) /\ s[i + 1] \in {43, 45} THEN i + 2 ELSE i + 1} })
    ELSE i

JsonNumberEnd(s, i) ==
    The({ IF a > Len(s) \/ ~IsDigit(s[a]) THEN 0
          ELSE JsonExponentEnd(s, JsonFractionEnd(s, IF s[a] = 48 THEN a + 1
                                                     ELSE DigitsEnd(s, a)))
          : a \in {IF s[i] = 45 THEN i + 1 ELSE i} })

HasAt(s, i, word) == i + Len(word) - 1 <= Len(s) /\ SubSeq(s, i, i + Len(word) - 1) = word

RECURSIVE JsonValueEnd(_, _), JsonElementsEnd(_, _, _), JsonMembersEnd(_, _, _)
JsonValueEnd(s, i) ==
    IF i > Len(s) THEN 0
    ELSE IF s[i] = 34 THEN JsonStringEnd(s, i + 1)
    ELSE IF s[i] = 123 THEN JsonMembersEnd(s, SkipSpace(s, i + 1), TRUE)
    ELSE IF s[i] = 91 THEN JsonElementsEnd(s, SkipSpace(s, i + 1), TRUE)
    ELSE IF HasAt(s, i, <<116, 114, 117, 101>>) THEN i + 4
    ELSE IF HasAt(s, i, <<102, 97, 108, 115, 101>>) THEN i + 5
    ELSE IF HasAt(s, i, <<110, 117, 108, 108>>) THEN i + 4
    ELSE JsonNumberEnd(s, i)

\* The elements of an array up to its "]", from the first position that is not
\* a space after "[" or after a ",".
JsonElementsEnd(s, i, first) ==
    IF i > Len(s) THEN 0
    ELSE IF first /\ s[i] = 93 THEN i + 1
    ELSE The({ IF j = 0 \/ j > Len(s) THEN 0
               ELSE IF s[j] = 44 THEN JsonElementsEnd(s, SkipSpace(s, j + 1), FALSE)
               ELSE IF s[j] = 93 THEN j + 1
               ELSE 0
               : j \in { The({ IF v = 0 THEN 0 ELSE SkipSpace(s, v)
                               : v \in {JsonValueEnd(s, i)} }) } })

\* The members of an object up to its "}".
JsonMembersEnd(s, i, first) ==
    IF i > Len(s) THEN 0
    ELSE IF first /\ s[i] = 125 THEN i + 1
    ELSE IF s[i] # 34 THEN 0
    ELSE The({ IF c = 0 \/ c > Len(s) \/ s[c] # 58 THEN 0
               ELSE The({ IF j = 0 \/ j > Len(s) THEN 0
                          ELSE IF s[j] = 44 THEN JsonMembersEnd(s, SkipSpace(s, j + 1), FALSE)
                          ELSE IF s[j] = 125 THEN j + 1
                          ELSE 0
                          : j \in { The({ IF v = 0 THEN 0 ELSE SkipSpace(s, v)
                                          : v \in {JsonValueEnd(s, SkipSpace(s, c + 1))} }) } })
               : c \in { The({ IF k = 0 THEN 0 ELSE SkipSpace(s, k)
                               : k \in {JsonStringEnd(s, i + 1)} }) } })

\* json.Unmarshal(msg, &json.RawMessage{}) == nil: msg is one JSON value with
\* spaces around it at most.
JsonValid(s) ==
    The({ v # 0 /\ SkipSpace(s, v) = Len(s) + 1
          : v \in {JsonValueEnd(s, SkipSpace(s, 1))} })

\* A formatMessageJson that never takes the message as it is.
formatMessageJsonAlwaysMarshal(msg) == JsonMarshalString(msg)

formatMessageJson(msg) == IF JsonValid(msg) THEN msg ELSE JsonMarshalString(msg)

\* validateAddress: TRUE when it does not end the process (log.Fatalf).
validateAddress(address, mustWithPort) ==
    /\ Len(address) > 0
    /\ LET addrToTest == IF ~mustWithPort /\ ~Contains(address, Colon)
                         THEN address \o <<Colon, 50, 53, 53, 54, 53>>
                         ELSE address
       IN  SplitHostPort(addrToTest).ok

\* Config.Init, "fill default values", for one route.
FillDefaults(route) ==
    IF route.Action = "" THEN [route EXCEPT !.Action = Forward] ELSE route

\* Config.Init, "validate", for one route: TRUE when no log.Fatalf is reached.
ValidRoute(route) ==
    /\ \A j \in 1..Len(route.Matches) : validateAddress(route.Matches[j], FALSE)
    /\ Len(route.Target) > 0
    /\ validateAddress(route.Target, FALSE)
    /\ (Len(route.Mimic) > 0 => validateAddress(route.Mimic, TRUE))
    /\ route.Action \in {Forward, Reject}
    /\ 0 <= route.ProxyProtocol /\ route.ProxyProtocol <= 2

\* Config.Init, "adjust values", for one route.
AdjustRoute(route) ==
    [route EXCEPT
        !.rejectMessageJson =
            IF Len(route.RejectMessage) > 0 THEN formatMessageJson(route.RejectMessage) ELSE <<>>,
        !.dialFailMessageJson =
            IF Len(route.DialFailMessage) > 0 THEN formatMessageJson(route.DialFailMessage) ELSE <<>>]

EmptyMap == [k \in {} |-> 0]

MapPut(m, k, v) == [x \in (DOMAIN m) \cup {k} |-> IF x = k THEN v ELSE m[x]]

\* The match key Config.Init stores for a configured address.
MatchKey(addr) == ToLower(addr)

\* The inner loop of "gather": c.routeMap[key] = route, for each match in order.
RECURSIVE GatherMatches(_, _, _)
GatherMatches(m, matches, i) ==
    IF matches = <<>> THEN m
    ELSE GatherMatches(MapPut(m, MatchKey(Head(matches)), i), Tail(matches), i)

\* The outer loop of "gather", from route i on; a route is named by its index
\* in Routes (the code's &c.Routes[i]) and nil is 0.
RECURSIVE Gather(_, _, _, _)
Gather(routes, i, m, d) ==
    IF i > Len(routes) THEN [routeMap |-> m, defaultRoute |-> d]
    ELSE IF routes[i].Name = DefaultRouteName
         THEN Gather(routes, i + 1, m, i)
         ELSE Gather(routes, i + 1, GatherMatches(m, routes[i].Matches, i), d)

\* Config.Init on routes that pass validation.
ConfigInit(routesIn) ==
    LET routes == [i \in 1..Len(routesIn) |-> AdjustRoute(FillDefaults(routesIn[i]))]
        g == Gather(routes, 1, EmptyMap, 0)
    IN  [Routes |-> routes, routeMap |-> g.routeMap, defaultRoute |-> g.defaultRoute]

ValidConfig(routesIn) ==
    \A i \in 1..Len(routesIn) : ValidRoute(FillDefaults(routesIn[i]))

----------------------------------------------------------------------------
(* protocol: bufReadWriterImpl, the reading half *)

\* A reader is [buf, peek, readLen]: the bytes the stream still holds (the peer
\* closes after them), the peeked byte (<<>> for nil) and the consumed counter.
\* An operation returns [st, v, rd]: st is "ok", "err" (an error value is
\* returned) or "panic" (a run-time panic unwinds the goroutine).

NewBufferReadWriter(bytes) == [buf |-> bytes, peek |-> <<>>, readLen |-> 0]

Res(st, v, rd) == [st |-> st, v |-> v, rd |-> rd]

ToInt16(u) == IF u >= 32768 THEN u - 65536 ELSE u

\* int32(u) for a uint32 u given as its two 16-bit halves (the integers of the
\* model checker are 32-bit, so a uint32 is never held as one number).
ToInt32(hi, lo) == ToInt16(hi) * 65536 + lo

\* bufReadWriterImpl.read: make([]byte, n) panics on a negative n; io.ReadFull
\* fails when the stream ends before n bytes.
read(rd, n) ==
    IF n < 0 THEN Res("panic", <<>>, rd)
    ELSE IF Len(rd.buf) >= n
         THEN Res("ok", SubSeq(rd.buf, 1, n), [rd EXCEPT !.buf = SubSeq(rd.buf, n + 1, Len(rd.buf))])
         ELSE Res("err", <<>>, [rd EXCEPT !.buf = <<>>])

\* Read that counts the peeked byte twice.
ReadCountsPeekTwice(rd, n) ==
    The({ IF r.st # "ok" THEN r
          ELSE IF rd.peek # <<>>
               THEN Res("ok", rd.peek \o r.v, [r.rd EXCEPT !.readLen = @ + n + 1])
               ELSE Res("ok", r.v, [r.rd EXCEPT !.readLen = @ + n])
          : r \in {read([rd EXCEPT !.peek = <<>>], IF rd.peek # <<>> THEN n - 1 ELSE n)} })

\* bufReadWriterImpl.Read
Read(rd, n) ==
    The({ IF r.st # "ok" THEN r
          ELSE IF rd.peek # <<>>
               THEN Res("ok", rd.peek \o r.v, [r.rd EXCEPT !.readLen = @ + (n - 1) + 1])
               ELSE Res("ok", r.v, [r.rd EXCEPT !.readLen = @ + n])
          : r \in {read([rd EXCEPT !.peek = <<>>], IF rd.peek # <<>> THEN n - 1 ELSE n)} })

\* bufReadWriterImpl.PeekByte
PeekByte(rd) ==
    IF rd.peek # <<>> THEN Res("ok", rd.peek[1], rd)
    ELSE The({ IF r.st # "ok" THEN Res(r.st, 0, r.rd)
               ELSE Res("ok", r.v[1], [r.rd EXCEPT !.peek = <<r.v[1]>>])
               : r \in {read(rd, 1)} })

ReadUInt8(rd) ==
    The({ IF r.st # "ok" THEN Res(r.st, 0, r.rd) ELSE Res("ok", r.v[1], r.rd)
          : r \in {Read(rd, 1)} })

ReadUInt16(rd) ==
    The({ IF r.st # "ok" THEN Res(r.st, 0, r.rd) ELSE Res("ok", r.v[1] * 256 + r.v[2], r.rd)
          : r \in {Read(rd, 2)} })

ReadInt16(rd) ==
    The({ IF r.st # "ok" THEN r ELSE Res("ok", ToInt16(r.v), r.rd)
          : r \in {ReadUInt16(rd)} })

\* bufReadWriterImpl.ReadUInt32: the value is [hi, lo], its 16-bit halves.
ReadUInt32(rd) ==
    The({ IF r.st # "ok" THEN Res(r.st, 0, r.rd)
          ELSE Res("ok", [hi |-> r.v[1] * 256 + r.v[2], lo |-> r.v[3] * 256 + r.v[4]], r.rd)
          : r \in {Read(rd, 4)} })

ReadInt32(rd) ==
    The({ IF r.st # "ok" THEN r ELSE Res("ok", ToInt32(r.v.hi, r.v.lo), r.rd)
          : r \in {ReadUInt32(rd)} })

\* value | int32(seg) << position, in int32: below position 28 no bit is lost;
\* at position 28 the low three bits of seg land on bits 28..30, its fourth bit
\* on the sign bit, and the bits above are shifted out.
OrShifted(value, seg, position) ==
    IF position < 28 THEN value + seg * (2 ^ position)
    ELSE IF (seg \div 8) % 2 = 1
         THEN ((value + (seg % 8) * 268435456) - 2147483647) - 1
         ELSE value + (seg % 8) * 268435456

\* The loop of ReadVarInt: one byte, then the next round or the end.
RECURSIVE VarIntLoop(_, _, _)
VarIntLoop(rd, value, position) ==
    The({ IF r.st # "ok" THEN Res(r.st, 0, r.rd)
          ELSE The({ IF r.v[1] < 128 THEN Res("ok", value2, r.rd)
                     ELSE IF position + 7 >= 32 THEN Res("err", 0, r.rd)
                     ELSE VarIntLoop(r.rd, value2, position + 7)
                     : value2 \in {OrShifted(value, r.v[1] % 128, position)} })
          : r \in {Read(rd, 1)} })

ReadVarInt(rd) == VarIntLoop(rd, 0, 0)

\* bufReadWriterImpl.ReadString: the length is passed to Read as it was decoded.
ReadString(rd) ==
    The({ IF l.st # "ok" THEN Res(l.st, <<>>, l.rd) ELSE Read(l.rd, l.v)
          : l \in {ReadVarInt(rd)} })

\* unicode/utf16.Decode followed by string([]rune): the UTF-8 bytes.
Utf8Encode(r) ==
    IF r < 128 THEN <<r>>
    ELSE IF r < 2048 THEN <<192 + (r \div 64), 128 + (r % 64)>>
    ELSE IF r < 65536 THEN <<224 + (r \div 4096), 128 + ((r \div 64) % 64), 128 + (r % 64)>>
    ELSE <<240 + (r \div 262144), 128 + ((r \div 4096) % 64), 128 + ((r \div 64) % 64), 128 + (r % 64)>>

RECURSIVE Utf16ToString(_)
Utf16ToString(u) ==
    IF u = <<>> THEN <<>>
    ELSE IF u[1] < 55296 \/ u[1] >= 57344
         THEN Utf8Encode(u[1]) \o Utf16ToString(Tail(u))
    ELSE IF u[1] < 56320 /\ Len(u) >= 2 /\ u[2] >= 56320 /\ u[2] < 57344
         THEN Utf8Encode((u[1] - 55296) * 1024 + (u[2] - 56320) + 65536)
              \o Utf16ToString(Tail(Tail(u)))
    ELSE Utf8Encode(65533) \o Utf16ToString(Tail(u))

\* binary.Read of one big-endian uint16 after the other.
BytesToUnits(b) == [i \in 1..(Len(b) \div 2) |-> b[2 * i - 1] * 256 + b[2 * i]]

\* int(strLen * 2), the product taken in int16.
DoubledInt16(strLen) == ToInt16((strLen * 2) % 65536)

\* bufReadWriterImpl.ReadUTF16BE
ReadUTF16BE(rd) ==
    The({ IF l.st # "ok" THEN Res(l.st, <<>>, l.rd)
          ELSE The({ IF b.st # "ok" THEN b
                     ELSE Res("ok", Utf16ToString(BytesToUnits(b.v)), b.rd)
                     : b \in {Read(l.rd, DoubledInt16(l.v))} })
          : l \in {ReadInt16(rd)} })

----------------------------------------------------------------------------
(* protocol: bufReadWriterImpl, the writing half. A write operator is the
   bytes the call hands to the underlying writer. *)

WriteUInt8(value) == <<value>>

WriteUInt16(value) == <<value \div 256, value % 256>>

\* WriteInt16(value) is WriteUInt16(uint16(value)).
WriteInt16(value) == WriteUInt16(value % 65536)

\* WriteInt32(value) is WriteUInt32(uint32(value)), the four bytes big-endian.
WriteInt32(value) ==
    IF value >= 0
    THEN <<value \div 16777216, (value \div 65536) % 256, (value \div 256) % 256, value % 256>>
    ELSE The({ <<128 + (low \div 16777216), (low \div 65536) % 256, (low \div 256) % 256, low % 256>>
               : low \in {(value + 2147483647) + 1} })

\* A writer that ends the value one bit late: a last byte may carry eight bits.
RECURSIVE WriteVarIntWide(_)
WriteVarIntWide(value) ==
    IF value >= 0 /\ value < 256 THEN <<value>>
    ELSE <<(value % 128) + 128>>
         \o WriteVarIntWide(IF value < 0 THEN (value \div 128) + 33554432 ELSE value \div 128)

RECURSIVE WriteVarInt(_)
WriteVarInt(value) ==
    IF value >= 0 /\ value < 128 THEN <<value>>
    ELSE <<(value % 128) + 128>>
         \o WriteVarInt(IF value < 0 THEN (value \div 128) + 33554432 ELSE value \div 128)

WriteString(s) == WriteVarInt(Len(s)) \o s

\* utf8.DecodeRune on a non-empty string: the rune and the bytes it takes;
\* an invalid or cut sequence is U+FFFD taking one byte.
DecodeRune(s) ==
    LET n == Len(s)
        cont(i) == i <= n /\ s[i] >= 128 /\ s[i] <= 191
        bad == [r |-> 65533, n |-> 1]
    IN  IF s[1] < 128 THEN [r |-> s[1], n |-> 1]
        ELSE IF s[1] >= 194 /\ s[1] <= 223
             THEN IF cont(2) THEN [r |-> (s[1] - 192) * 64 + (s[2] - 128), n |-> 2] ELSE bad
        ELSE IF s[1] >= 224 /\ s[1] <= 239
             THEN IF cont(2) /\ cont(3)
                     /\ (s[1] = 224 => s[2] >= 160) /\ (s[1] = 237 => s[2] <= 159)
                  THEN [r |-> (s[1] - 224) * 4096 + (s[2] - 128) * 64 + (s[3] - 128), n |-> 3]
                  ELSE bad
        ELSE IF s[1] >= 240 /\ s[1] <= 244
             THEN IF cont(2) /\ cont(3) /\ cont(4)
                     /\ (s[1] = 240 => s[2] >= 144) /\ (s[1] = 244 => s[2] <= 143)
                  THEN [r |-> (s[1] - 240) * 262144 + (s[2] - 128) * 4096
                              + (s[3] - 128) * 64 + (s[4] - 128), n |-> 4]
                  ELSE bad
        ELSE bad

\* utf16.Encode([]rune(s))
RECURSIVE StringToUtf16(_)
StringToUtf16(s) ==
    IF s = <<>> THEN <<>>
    ELSE The({ (IF d.r < 65536 THEN <<d.r>>
                ELSE <<55296 + ((d.r - 65536) \div 1024), 56320 + ((d.r - 65536) % 1024)>>)
               \o StringToUtf16(SubSeq(s, d.n + 1, Len(s)))
               : d \in {DecodeRune(s)} })

\* binary.Write of one big-endian uint16 after the other.
RECURSIVE UnitsToBytes(_)
UnitsToBytes(u) ==
    IF u = <<>> THEN <<>> ELSE WriteUInt16(Head(u)) \o UnitsToBytes(Tail(u))

\* The length WriteUTF16BE writes in front of the encoded bytes b:
\* int16(len(b)).
EncodedLength(b) == ToInt16(Len(b) % 65536)

\* bufReadWriterImpl.WriteUTF16BE
WriteUTF16BE(s) ==
    The({ WriteInt16(EncodedLength(b)) \o b : b \in {UnitsToBytes(StringToUtf16(s))} })

----------------------------------------------------------------------------
(* protocol: packets *)

HandShakePacketId == 0
HandshakeNextStateStatus == 1
HandshakeNextStateLogin == 2
legacyHandshakeMagic == 254

legacyServerPingHead ==
    <<254, 1, 250, 0, 11,
      0, 77, 0, 67, 0, 124, 0, 80, 0, 105, 0, 110, 0, 103, 0, 72, 0, 111, 0, 115, 0, 116>>

\* HandshakePacket.ReadFrom
HandshakeReadFrom(rd) ==
    The({ IF a.st # "ok" THEN Res(a.st, <<>>, a.rd) ELSE
    The({ IF h.st # "ok" THEN Res(h.st, <<>>, h.rd) ELSE
    The({ IF p.st # "ok" THEN Res(p.st, <<>>, p.rd) ELSE
    The({ IF n.st # "ok" THEN Res(n.st, <<>>, n.rd)
          ELSE Res("ok",
                   [kind |-> "modern", Protocol |-> a.v, Hostname |-> h.v,
                    Port |-> p.v, NextState |-> n.v],
                   n.rd)
          : n \in {ReadVarInt(p.rd)} })
          : p \in {ReadUInt16(h.rd)} })
          : h \in {ReadString(a.rd)} })
          : a \in {ReadVarInt(rd)} })

\* A ReadModernPacket without the comparison of the consumed counter with the
\* packet length.
ReadModernPacketNoLenCheck(rd) ==
    The({ IF packetLen.st # "ok" THEN Res(packetLen.st, <<>>, packetLen.rd) ELSE
    The({ IF packetBody.st # "ok" THEN Res(packetBody.st, <<>>, packetBody.rd) ELSE
    The({ IF packetId.st # "ok" THEN Res(packetId.st, <<>>, packetBody.rd)
          ELSE IF packetId.v # HandShakePacketId THEN Res("err", <<>>, packetBody.rd) ELSE
    The({ IF packet.st # "ok" THEN Res(packet.st, <<>>, packetBody.rd)
          ELSE Res("ok", packet.v, packetBody.rd)
          : packet \in {HandshakeReadFrom(packetId.rd)} })
          : packetId \in {ReadVarInt(NewBufferReadWriter(packetBody.v))} })
          : packetBody \in {Read(packetLen.rd, packetLen.v)} })
          : packetLen \in {ReadVarInt(rd)} })

\* ReadModernPacket with the packet factory of ReadHandshakePacket.
ReadModernPacket(rd) ==
    The({ IF packetLen.st # "ok" THEN Res(packetLen.st, <<>>, packetLen.rd) ELSE
    The({ IF packetBody.st # "ok" THEN Res(packetBody.st, <<>>, packetBody.rd) ELSE
    The({ IF packetId.st # "ok" THEN Res(packetId.st, <<>>, packetBody.rd)
          ELSE IF packetId.v # HandShakePacketId THEN Res("err", <<>>, packetBody.rd) ELSE
    The({ IF packet.st # "ok" THEN Res(packet.st, <<>>, packetBody.rd)
          ELSE IF packet.rd.readLen # packetLen.v THEN Res("err", <<>>, packetBody.rd)
          ELSE Res("ok", packet.v, packetBody.rd)
          : packet \in {HandshakeReadFrom(packetId.rd)} })
          : packetId \in {ReadVarInt(NewBufferReadWriter(packetBody.v))} })
          : packetBody \in {Read(packetLen.rd, packetLen.v)} })
          : packetLen \in {ReadVarInt(rd)} })

\* A LegacyServerListPingPacket.ReadFrom that converts the port to uint16
\* without the range check.
LegacyReadFromNoRange(rd) ==
    The({ IF head.st # "ok" THEN Res(head.st, <<>>, head.rd)
          ELSE IF head.v # legacyServerPingHead THEN Res("err", <<>>, head.rd) ELSE
    The({ IF rest.st # "ok" THEN Res(rest.st, <<>>, rest.rd) ELSE
    The({ IF proto.st # "ok" THEN Res(proto.st, <<>>, proto.rd) ELSE
    The({ IF h.st # "ok" THEN Res(h.st, <<>>, h.rd) ELSE
    The({ IF port.st # "ok" THEN Res(port.st, <<>>, port.rd)
          ELSE Res("ok",
                   [kind |-> "legacy", Header |-> head.v, Protocol |-> proto.v,
                    Hostname |-> h.v, Port |-> port.v % 65536],
                   port.rd)
          : port \in {ReadInt32(h.rd)} })
          : h \in {ReadUTF16BE(proto.rd)} })
          : proto \in {ReadUInt8(rest.rd)} })
          : rest \in {ReadInt16(head.rd)} })
          : head \in {Read(rd, Len(legacyServerPingHead))} })

\* LegacyServerListPingPacket.ReadFrom
LegacyReadFrom(rd) ==
    The({ IF head.st # "ok" THEN Res(head.st, <<>>, head.rd)
          ELSE IF head.v # legacyServerPingHead THEN Res("err", <<>>, head.rd) ELSE
    The({ IF rest.st # "ok" THEN Res(rest.st, <<>>, rest.rd) ELSE
    The({ IF proto.st # "ok" THEN Res(proto.st, <<>>, proto.rd) ELSE
    The({ IF h.st # "ok" THEN Res(h.st, <<>>, h.rd) ELSE
    The({ IF port.st # "ok" THEN Res(port.st, <<>>, port.rd)
          ELSE IF port.v < 0 \/ port.v > 65535 THEN Res("err", <<>>, port.rd)
          ELSE Res("ok",
                   [kind |-> "legacy", Header |-> head.v, Protocol |-> proto.v,
                    Hostname |-> h.v, Port |-> port.v],
                   port.rd)
          : port \in {ReadInt32(h.rd)} })
          : h \in {ReadUTF16BE(proto.rd)} })
          : proto \in {ReadUInt8(rest.rd)} })
          : rest \in {ReadInt16(head.rd)} })
          : head \in {Read(rd, Len(legacyServerPingHead))} })

\* ReadHandshakePacket on a fresh reader over the client's bytes:
\* [kind, hs, rest], kind "handshake" (hs is the packet), "error" or "panic";
\* rest is what the reader left in the stream.
ReadHandshakePacket(bytes) ==
    The({ IF head.st # "ok" THEN [kind |-> "error", hs |-> <<>>, rest |-> head.rd.buf]
          ELSE The({ [kind |-> IF r.st = "ok" THEN "handshake"
                               ELSE IF r.st = "err" THEN "error" ELSE "panic",
                      hs |-> r.v, rest |-> r.rd.buf]
                     : r \in {IF head.v = legacyHandshakeMagic
                              THEN LegacyReadFrom(head.rd)
                              ELSE ReadModernPacket(head.rd)} })
          : head \in {PeekByte(NewBufferReadWriter(bytes))} })

DisconnectPacketId == 0

\* HandshakePacket.WriteTo
HandshakeWriteTo(p) ==
    WriteVarInt(p.Protocol) \o WriteString(p.Hostname) \o WriteUInt16(p.Port)
        \o WriteVarInt(p.NextState)

\* DisconnectPacket.WriteTo
DisconnectWriteTo(p) == WriteString(p.Reason)

\* LegacyServerListPingPacket.WriteTo
LegacyWriteTo(p) ==
    The({ p.Header \o WriteInt16(ToInt16(Len(b) % 65536)) \o b
          : b \in {WriteUInt8(p.Protocol) \o WriteUTF16BE(p.Hostname) \o WriteInt32(p.Port)} })

\* WritePacket: the bytes written for a packet.
WritePacket(packet) ==
    IF packet.kind = "legacy" THEN LegacyWriteTo(packet)
    ELSE The({ WriteVarInt(Len(packetBody)) \o packetBody
               : packetBody \in { IF packet.kind = "modern"
                                  THEN WriteVarInt(HandShakePacketId) \o HandshakeWriteTo(packet)
                                  ELSE WriteVarInt(DisconnectPacketId) \o DisconnectWriteTo(packet) } })

----------------------------------------------------------------------------
(* router: RouteFor *)

\* The hostname RouteFor looks up: trailing dots removed.
TrimHostname(hostname) == TrimRight(hostname, Dot)

\* RouteFor with the two map lookups in the other order: hostname, then address.
RouteForHostFirst(cfg, hostnameIn, port) ==
    LET hostname == TrimHostname(hostnameIn)
        address == FormatAddress(hostname, port)
    IN  IF ToLower(hostname) \in DOMAIN cfg.routeMap THEN cfg.routeMap[ToLower(hostname)]
        ELSE IF ToLower(address) \in DOMAIN cfg.routeMap THEN cfg.routeMap[ToLower(address)]
        ELSE cfg.defaultRoute

\* RouteFor without the hostname-only lookup (the full address or the default).
RouteForAddressOnly(cfg, hostnameIn, port) ==
    LET hostname == TrimHostname(hostnameIn)
        address == FormatAddress(hostname, port)
    IN  IF ToLower(address) \in DOMAIN cfg.routeMap THEN cfg.routeMap[ToLower(address)]
        ELSE cfg.defaultRoute

\* RouteFor looking the address and the hostname up as received, not lowercased.
RouteForNoLower(cfg, hostnameIn, port) ==
    LET hostname == TrimHostname(hostnameIn)
        address == FormatAddress(hostname, port)
    IN  IF address \in DOMAIN cfg.routeMap THEN cfg.routeMap[address]
        ELSE IF hostname \in DOMAIN cfg.routeMap THEN cfg.routeMap[hostname]
        ELSE cfg.defaultRoute

\* A RouteFor that falls back to the first route of the list when nothing
\* matches and no default route is configured.
RouteForFirstAsDefault(cfg, hostnameIn, port) ==
    LET hostname == TrimHostname(hostnameIn)
        address == FormatAddress(hostname, port)
    IN  IF ToLower(address) \in DOMAIN cfg.routeMap THEN cfg.routeMap[ToLower(address)]
        ELSE IF ToLower(hostname) \in DOMAIN cfg.routeMap THEN cfg.routeMap[ToLower(hostname)]
        ELSE IF cfg.defaultRoute # 0 THEN cfg.defaultRoute
        ELSE IF Len(cfg.Routes) > 0 THEN 1 ELSE 0

\* ConnectionHandler.RouteFor: the index of the selected route, 0 for nil.
RouteFor(cfg, hostnameIn, port) ==
    LET hostname == TrimHostname(hostnameIn)
        address == FormatAddress(hostname, port)
    IN  IF ToLower(address) \in DOMAIN cfg.routeMap THEN cfg.routeMap[ToLower(address)]
        ELSE IF ToLower(hostname) \in DOMAIN cfg.routeMap THEN cfg.routeMap[ToLower(hostname)]
        ELSE cfg.defaultRoute

----------------------------------------------------------------------------
(* The routing specification: a prepared configuration, and RouteFor applied
   to hostnames and ports a client can send. *)

MaxRoutes == 2

NoMessage == <<>>

\* A route of the configuration file, before Config.Init.
MkRoute(name, matches, action, target, mimic, pp, rejectMessage, dialFailMessage) ==
    [Name |-> name, Matches |-> matches, Action |-> action, Target |-> target,
     Mimic |-> mimic, ProxyProtocol |-> pp,
     RejectMessage |-> rejectMessage, DialFailMessage |-> dialFailMessage,
     rejectMessageJson |-> <<>>, dialFailMessageJson |-> <<>>]

\* "t:1"
PlainTarget == <<116, 58, 49>>

\* The match lists of the routing specification:
\*   [], ["a"], ["A"], ["a."], ["a:1"], ["A:1"], ["b"], ["a", "a:1"]
RouteMatchLists ==
    { <<>>, << <<97>> >>, << <<65>> >>, << <<97, 46>> >>, << <<97, 58, 49>> >>,
      << <<65, 58, 49>> >>, << <<98>> >>, << <<97>>, <<97, 58, 49>> >> }

RouteNames == {"foo", DefaultRouteName}

RoutingRoutes ==
    { MkRoute(n, ms, "", PlainTarget, <<>>, 0, NoMessage, NoMessage) :
        n \in RouteNames, ms \in RouteMatchLists }

RECURSIVE SeqsUpTo(_, _)
SeqsUpTo(S, n) ==
    IF n = 0 THEN {<<>>}
    ELSE LET shorter == SeqsUpTo(S, n - 1)
         IN  shorter \cup {Append(q, x) : q \in {t \in shorter : Len(t) = n - 1}, x \in S}

RoutingConfigs ==
    {ConfigInit(rs) : rs \in {q \in SeqsUpTo(RoutingRoutes, MaxRoutes) : ValidConfig(q)}}

\* Hostnames of a handshake: "a", "A", "a.", "A.", "a..", "a:1", "b", ""
LookupHosts ==
    { <<97>>, <<65>>, <<97, 46>>, <<65, 46>>, <<97, 46, 46>>, <<97, 58, 49>>, <<98>>, <<>> }

LookupPorts == {1, 25565}

NoLookup == [kind |-> "none"]
NoParse == [kind |-> "none"]

NoHandshake == [kind |-> "none"]
NewOnce == [done |-> FALSE, calls |-> 0]
NoForward == [c2t |-> "idle", t2c |-> "idle"]
NoResolution == [kind |-> "none"]

\* The process before main has started the router.
NoRouter ==
    [main |-> "idle", run |-> "idle", closer |-> "idle", listener |-> "none",
     accepted |-> 0, pending |-> 0, killed |-> 0]

CodecIdle == stream = <<>> /\ parsed = NoParse

\* No connection is being handled.
ConnIdle ==
    /\ pc = "idle"
    /\ timer = "idle"
    /\ handshakeTimeout = FALSE
    /\ clientConn = NewOnce
    /\ targetConn = NewOnce
    /\ dialed = FALSE
    /\ hs = NoHandshake
    /\ hostnameTail = <<>>
    /\ exit = "none"
    /\ clientOut = <<>>
    /\ upstreamOut = <<>>
    /\ fwd = NoForward
    /\ served = 0
    /\ resolution = NoResolution
    /\ logged = {}
    /\ router = NoRouter

InitRoute ==
    /\ config \in RoutingConfigs
    /\ lookup = NoLookup
    /\ CodecIdle
    /\ ConnIdle

\* One call of RouteFor(h, p).
DoRouteFor ==
    \E h \in LookupHosts, p \in LookupPorts :
        /\ lookup' = [kind |-> "lookup", h |-> h, p |-> p, r |-> RouteFor(config, h, p)]
        /\ UNCHANGED <<config, stream, parsed, connVars, router>>

NextRoute == DoRouteFor

SpecRoute == InitRoute /\ [][NextRoute]_vars

----------------------------------------------------------------------------
(* Routing properties *)

Looked == lookup.kind = "lookup"

\* The non-default routes of the configuration (the default's matches are ignored).
MatchingRoutes(cfg) ==
    {i \in 1..Len(cfg.Routes) : cfg.Routes[i].Name # DefaultRouteName}

\* The configured match strings that carry a port, and those that do not, lowercased.
ConfiguredKeys(cfg) ==
    UNION {{ToLower(cfg.Routes[i].Matches[j]) : j \in 1..Len(cfg.Routes[i].Matches)} :
            i \in MatchingRoutes(cfg)}

HostPortKeys(cfg) == {k \in ConfiguredKeys(cfg) : Contains(k, Colon)}

HostOnlyKeys(cfg) == {k \in ConfiguredKeys(cfg) : ~Contains(k, Colon)}

RouteHasKey(cfg, i, key) ==
    \E j \in 1..Len(cfg.Routes[i].Matches) : ToLower(cfg.Routes[i].Matches[j]) = key

\* The route owning a configured key: the last route of the list that names it.
Owner(cfg, key) ==
    CHOOSE i \in MatchingRoutes(cfg) :
        /\ RouteHasKey(cfg, i, key)
        /\ \A k \in MatchingRoutes(cfg) : RouteHasKey(cfg, k, key) => k <= i

\* The configured default route: the last route named "default", 0 when none.
DefaultOf(cfg) ==
    IF \E i \in 1..Len(cfg.Routes) : cfg.Routes[i].Name = DefaultRouteName
    THEN CHOOSE i \in 1..Len(cfg.Routes) :
            /\ cfg.Routes[i].Name = DefaultRouteName
            /\ \A k \in 1..Len(cfg.Routes) : cfg.Routes[k].Name = DefaultRouteName => k <= i
    ELSE 0

\* The normalized hostname and address of the last lookup.
NormHost == ToLower(TrimRight(lookup.h, Dot))
NormAddress == ToLower(FormatAddress(TrimRight(lookup.h, Dot), lookup.p))

\* C1: whenever the normalized "h:p" is a configured host+port key, RouteFor
\* returns the route owning that key, also when another route has a host-only
\* match for h, in either order of the two routes.
C1_ExactMatchWins ==
    (Looked /\ NormAddress \in HostPortKeys(config))
        => lookup.r = Owner(config, NormAddress)

\* C1 witness: the host+port key and a host-only key for the same host belong to
\* two routes, the host-only route listed later, and the host+port route is returned.
C1_Witness ==
    /\ Looked
    /\ NormAddress \in HostPortKeys(config)
    /\ NormHost \in HostOnlyKeys(config)
    /\ Owner(config, NormHost) > Owner(config, NormAddress)
    /\ lookup.r = Owner(config, NormAddress)

\* C2: when the normalized "h:p" is not a configured host+port key and the
\* normalized h is a configured host-only key, the host-only route is returned,
\* whatever the port.
C2_HostOnlyMatch ==
    (Looked /\ NormAddress \notin HostPortKeys(config) /\ NormHost \in HostOnlyKeys(config))
        => lookup.r = Owner(config, NormHost)

\* C2 witness: a host-only hit on port 25565 while the same host has a host+port
\* key for another port and a default route exists.
C2_Witness ==
    /\ Looked
    /\ lookup.p = 25565
    /\ NormAddress \notin HostPortKeys(config)
    /\ NormHost \in HostOnlyKeys(config)
    /\ FormatAddress(NormHost, 1) \in HostPortKeys(config)
    /\ DefaultOf(config) # 0
    /\ lookup.r = Owner(config, NormHost)

\* C3 (as claimed): with neither a host+port hit nor a host-only hit the result
\* is the default route, or no route when none is configured, for every hostname
\* a client can send.
C3_DefaultOtherwise ==
    (Looked /\ NormAddress \notin HostPortKeys(config) /\ NormHost \notin HostOnlyKeys(config))
        => lookup.r = DefaultOf(config)

ToUpperByte(b) == IF b >= 97 /\ b <= 122 THEN b - 32 ELSE b

RECURSIVE CaseVariants(_)
CaseVariants(s) ==
    IF s = <<>> THEN {<<>>}
    ELSE {<<c>> \o t : c \in {ToLowerByte(Head(s)), ToUpperByte(Head(s))},
                        t \in CaseVariants(Tail(s))}

\* The hostnames that differ from h in letter case and in one trailing dot only.
HostVariants(h) == CaseVariants(h) \cup {v \o <<Dot>> : v \in CaseVariants(h)}

\* C4: RouteFor returns the same route for h, for h with a trailing dot and for
\* every case variant of h; and a host-only match configured in mixed case is hit
\* by its lowercase hostname.
C4_CaseAndDotInsensitive ==
    Looked =>
        /\ \A v \in HostVariants(lookup.h) : RouteFor(config, v, lookup.p) = lookup.r
        /\ \A i \in MatchingRoutes(config) : \A j \in 1..Len(config.Routes[i].Matches) :
            LET m == config.Routes[i].Matches[j]
            IN  (/\ m # ToLower(m)
                 /\ ~Contains(m, Colon)
                 /\ lookup.h = ToLower(m)
                 /\ NormAddress \notin HostPortKeys(config))
                => lookup.r = Owner(config, ToLower(m))

\* C4 witness: the lowercase hostname "a" is routed by a match configured as "A",
\* to a route that is not the default, and so is "A.".
C4_Witness ==
    /\ Looked
    /\ lookup.h = <<97>>
    /\ RouteFor(config, <<65, 46>>, lookup.p) = lookup.r
    /\ lookup.r # 0
    /\ config.Routes[lookup.r].Name # DefaultRouteName
    /\ config.Routes[lookup.r].Matches = << <<65>> >>

\* A hostname without its last byte when that byte is a dot.
StripOneDot(h) ==
    IF Len(h) > 0 /\ h[Len(h)] = Dot THEN SubSeq(h, 1, Len(h) - 1) ELSE h

\* The route the two map lookups and the default give for a hostname that is
\* taken as it is, lowercased.
LookedUpAs(cfg, hostname, port) ==
    IF ToLower(FormatAddress(hostname, port)) \in DOMAIN cfg.routeMap
    THEN cfg.routeMap[ToLower(FormatAddress(hostname, port))]
    ELSE IF ToLower(hostname) \in DOMAIN cfg.routeMap
    THEN cfg.routeMap[ToLower(hostname)]
    ELSE cfg.defaultRoute

\* C22 (as claimed): a hostname that ends in two dots is looked up with one
\* dot stripped, "h.." as "h.", and not as "h".
C22_StripsExactlyOneDot ==
    (Looked /\ Len(lookup.h) >= 2 /\ lookup.h[Len(lookup.h)] = Dot
            /\ lookup.h[Len(lookup.h) - 1] = Dot)
        => lookup.r = LookedUpAs(config, StripOneDot(lookup.h), lookup.p)

\* The routes with a host-only match that is the looked-up host, lowercased
\* and without trailing dot, once the match is lowercased and its trailing dot
\* stripped too.
RoutesForNormalizedHost(cfg) ==
    { i \in MatchingRoutes(cfg) :
        \E j \in 1..Len(cfg.Routes[i].Matches) :
            /\ ~Contains(cfg.Routes[i].Matches[j], Colon)
            /\ ToLower(StripOneDot(cfg.Routes[i].Matches[j])) = NormHost }

\* C23 (as claimed): a host-only match is keyed lowercased and without its
\* trailing dot, so that a route configured with "h." is selected for the
\* inbound hostnames "h" and "h." when no host+port key is hit.
C23_DottedMatchSelected ==
    (Looked /\ NormAddress \notin HostPortKeys(config)
            /\ RoutesForNormalizedHost(config) # {})
        => lookup.r \in RoutesForNormalizedHost(config)

----------------------------------------------------------------------------
(* The codec specification: the bytes a client sends, then closes, and
   ReadHandshakePacket applied to them. *)

MaxHostLen == 2

\* Encodings of a var-int, well-formed and not: 0, 1, 2, 5..8, 128 in two bytes,
\* -1, 2^31-1, an unfinished one, one with a fifth continuation bit.
VarIntChunks ==
    { <<0>>, <<1>>, <<2>>, <<5>>, <<6>>, <<7>>, <<8>>, <<128, 1>>,
      <<255, 255, 255, 255, 15>>, <<255, 255, 255, 255, 7>>, <<128>>,
      <<255, 255, 255, 255, 255>> }

SmallVarIntChunks == { <<0>>, <<1>>, <<2>>, <<255, 255, 255, 255, 15>> }

\* Hostname bytes: 'a', NUL and '.'.
HostChunks == SeqsUpTo({97, 0, 46}, MaxHostLen)

PortChunks == { <<99, 221>>, <<0>> }

ModernStreams ==
    { len \o id \o <<47>> \o hlen \o host \o port \o next :
        len \in VarIntChunks, id \in {<<0>>, <<1>>}, hlen \in SmallVarIntChunks,
        host \in HostChunks, port \in PortChunks, next \in SmallVarIntChunks }

\* The legacy magic, as it is and with its last byte changed.
LegacyHeads ==
    { legacyServerPingHead, [legacyServerPingHead EXCEPT ![27] = 117] }

\* An i16 count of UTF-16 code units: 0, 1, 2, -1, 16384, -32768.
CountChunks == { <<0, 0>>, <<0, 1>>, <<0, 2>>, <<255, 255>>, <<64, 0>>, <<128, 0>> }

\* UTF-16BE code units: only 'a' and '.' bytes paired with a zero byte.
RECURSIVE UnitChunks(_)
UnitChunks(n) ==
    IF n = 0 THEN {<<>>}
    ELSE UnitChunks(n - 1)
         \cup {u \o <<0, c>> : u \in {t \in UnitChunks(n - 1) : Len(t) = 2 * (n - 1)},
                                c \in {97, 46}}

\* An i32 port: 25565, 65536, -1, and one cut short.
LegacyPortChunks == { <<0, 0, 99, 221>>, <<0, 1, 0, 0>>, <<255, 255, 255, 255>>, <<0, 0>> }

\* The remaining-length field: 7 and -1.
RestChunks == { <<0, 7>>, <<255, 255>> }

LegacyStreams ==
    { head \o rest \o <<73>> \o count \o units \o port :
        head \in LegacyHeads, rest \in RestChunks, count \in CountChunks,
        units \in UnitChunks(MaxHostLen), port \in LegacyPortChunks }

ClientStreams == ModernStreams \cup LegacyStreams \cup {<<>>, <<254>>}

RoutingIdle == config = ConfigInit(<<>>) /\ lookup = NoLookup

InitCodec ==
    /\ stream \in ClientStreams
    /\ parsed = NoParse
    /\ RoutingIdle
    /\ ConnIdle

\* The handler's call of ReadHandshakePacket on the client's stream.
DoReadHandshake ==
    /\ parsed = NoParse
    /\ parsed' = ReadHandshakePacket(stream)
    /\ UNCHANGED <<config, lookup, stream, connVars, router>>

NextCodec == DoReadHandshake

SpecCodec == InitCodec /\ [][NextCodec]_vars

----------------------------------------------------------------------------
(* Codec properties *)

\* C7 (as claimed): for every byte sequence a client can send,
\* ReadHandshakePacket ends by returning a handshake or an error value; no
\* run-time panic leaves it and aborts the process.
C7_ReadNeverAborts ==
    parsed.kind \in {"none", "handshake", "error"}

\* The client's stream was read and does not start with the legacy magic.
ModernRead ==
    /\ parsed.kind # "none"
    /\ stream # <<>>
    /\ stream[1] # legacyHandshakeMagic

\* The packet length at the head of the stream, and what follows it.
StreamLength == ReadVarInt(NewBufferReadWriter(stream))

\* The stream holds a whole frame: a length that is not negative and at least
\* that many bytes after it.
WholeFrame ==
    /\ StreamLength.st = "ok"
    /\ StreamLength.v >= 0
    /\ Len(StreamLength.rd.buf) >= StreamLength.v

FrameBody == SubSeq(StreamLength.rd.buf, 1, StreamLength.v)

AfterFrame == SubSeq(StreamLength.rd.buf, StreamLength.v + 1, Len(StreamLength.rd.buf))

\* The packet id of the frame, and the fields read from what follows it.
FrameId == ReadVarInt(NewBufferReadWriter(FrameBody))

FrameFields == HandshakeReadFrom(NewBufferReadWriter(FrameId.rd.buf))

\* C26: a modern packet is accepted only when its frame is the packet id 0
\* followed by the four handshake fields and nothing else, and the reader has
\* then taken the length and exactly that many bytes from the stream; a frame
\* that the stream does not hold in full, another packet id, fields that run
\* past the end of the frame and bytes left in the frame after the fields
\* are errors.
C26_ExactFrame ==
    ModernRead =>
        /\ parsed.kind = "handshake" =>
              /\ parsed.hs.kind = "modern"
              /\ WholeFrame
              /\ FrameId.st = "ok"
              /\ FrameId.v = HandShakePacketId
              /\ FrameFields.st = "ok"
              /\ FrameFields.v = parsed.hs
              /\ FrameFields.rd.buf = <<>>
              /\ parsed.rest = AfterFrame
        /\ (StreamLength.st = "ok" /\ StreamLength.v >= 0 /\ ~WholeFrame) =>
              parsed.kind = "error"
        /\ WholeFrame =>
              /\ (FrameId.st = "err" \/ FrameId.v # HandShakePacketId) => parsed.kind = "error"
              /\ (FrameId.st = "ok" /\ FrameId.v = HandShakePacketId) =>
                    /\ FrameFields.st = "err" => parsed.kind = "error"
                    /\ (FrameFields.st = "ok" /\ FrameFields.rd.buf # <<>>) =>
                          parsed.kind = "error"
                    /\ (FrameFields.st = "ok" /\ FrameFields.rd.buf = <<>>) =>
                          parsed.kind = "handshake"

\* A frame of eight bytes for the hostname "a." was accepted, and the stream
\* was left at the byte after the frame.
C26_Witness ==
    /\ ModernRead
    /\ parsed.kind = "handshake"
    /\ StreamLength.v = 8
    /\ parsed.hs.Hostname = <<97, 46>>
    /\ parsed.rest = <<>>
    /\ Len(stream) = 9

\* The client's stream was read and starts with the legacy magic byte.
LegacyRead ==
    /\ parsed.kind # "none"
    /\ stream # <<>>
    /\ stream[1] = legacyHandshakeMagic

\* The bytes the reader took from the stream.
Consumed == SubSeq(stream, 1, Len(stream) - Len(parsed.rest))

\* The stream with another remaining-length field.
WithRest(rest) == SubSeq(stream, 1, 27) \o rest \o SubSeq(stream, 30, Len(stream))

\* The stream goes on after the remaining-length field with a protocol byte, a
\* count of 0..2 code units, that many units and four port bytes.
LegacyPortAt ==
    IF Len(stream) >= 32 /\ stream[31] = 0 /\ stream[32] \in 0..2
       /\ Len(stream) >= 32 + 2 * stream[32] + 4
    THEN 32 + 2 * stream[32] + 1
    ELSE 0

\* The first 27 bytes of the stream, or all of it when it is shorter.
StreamHead == IF Len(stream) >= 27 THEN SubSeq(stream, 1, 27) ELSE stream

\* C29: a legacy packet is accepted only when its first 27 bytes are the
\* magic and its port is in 0..65535, and the port of the packet is then the
\* value on the wire; a stream of 27 bytes or more with another head is an
\* error, and so is a packet whose port is outside 0..65535; the
\* remaining-length field changes nothing in the result.
C29_LegacyAcceptance ==
    LegacyRead =>
        /\ parsed.kind = "handshake" =>
              /\ parsed.hs.kind = "legacy"
              /\ StreamHead = legacyServerPingHead
              /\ Len(Consumed) >= 36
              /\ Consumed[Len(Consumed) - 3] = 0
              /\ Consumed[Len(Consumed) - 2] = 0
              /\ parsed.hs.Port = Consumed[Len(Consumed) - 1] * 256 + Consumed[Len(Consumed)]
        /\ (Len(stream) >= 27 /\ StreamHead # legacyServerPingHead) =>
              parsed.kind = "error"
        /\ (StreamHead = legacyServerPingHead /\ LegacyPortAt # 0) =>
              IF stream[LegacyPortAt] = 0 /\ stream[LegacyPortAt + 1] = 0
              THEN parsed.kind = "handshake"
              ELSE parsed.kind = "error"
        /\ Len(stream) >= 29 =>
              \A rest \in RestChunks \cup {<<0, 0>>, <<127, 255>>} :
                  /\ ReadHandshakePacket(WithRest(rest)).kind = parsed.kind
                  /\ ReadHandshakePacket(WithRest(rest)).hs = parsed.hs

\* A legacy ping for "a." and port 25565 was accepted although its
\* remaining-length field is -1.
C29_Witness ==
    /\ LegacyRead
    /\ parsed.kind = "handshake"
    /\ SubSeq(stream, 28, 29) = <<255, 255>>
    /\ parsed.hs.Hostname = <<97, 46>>
    /\ parsed.hs.Port = 25565

----------------------------------------------------------------------------
(* router: ConnectionHandler.handleConnection *)

\* strings.Split(s, "\x00")[0]: the bytes before the first c, or all of s.
RECURSIVE SplitFirst(_, _)
SplitFirst(s, c) ==
    IF s = <<>> \/ Head(s) = c THEN <<>>
    ELSE <<Head(s)>> \o SplitFirst(Tail(s), c)

\* The value of a string of decimal digits.
RECURSIVE DigitsValue(_)
DigitsValue(s) ==
    IF s = <<>> THEN 0
    ELSE DigitsValue(SubSeq(s, 1, Len(s) - 1)) * 10 + (s[Len(s)] - 48)

\* strconv.Atoi, on strings of at most nine digits after an optional sign.
Atoi(s) ==
    LET signed == Len(s) > 0 /\ s[1] \in {43, 45}
        digits == IF signed THEN Tail(s) ELSE s
    IN  IF IsDigits(digits) /\ Len(digits) <= 9
        THEN [ok |-> TRUE,
              v  |-> IF signed /\ s[1] = 45 THEN 0 - DigitsValue(digits)
                     ELSE DigitsValue(digits)]
        ELSE [ok |-> FALSE, v |-> 0]

\* The conversion uint16(port) of an int.
ToUint16(n) == n % 65536

\* sync.Once around a Close: the state of a once-wrapped close function is
\* whether it has run and how many times Close was called on the socket.
OnceDo(o) == IF o.done THEN o ELSE [done |-> TRUE, calls |-> o.calls + 1]

\* A close function without the once: every call closes the socket again.
closeClientConnDirect(o) == [done |-> TRUE, calls |-> o.calls + 1]

closeTargetConnDirect(o) == [done |-> TRUE, calls |-> o.calls + 1]

closeClientConn(o) == OnceDo(o)

closeTargetConn(o) == OnceDo(o)

\* The gate of disconnectWithMessage without the next-state test.
DisconnectGateAnyState(packet, messageJson) ==
    packet.kind = "modern" /\ Len(messageJson) > 0

\* disconnectWithMessage: whether a disconnect packet is written.
DisconnectGate(packet, messageJson) ==
    /\ packet.kind = "modern"
    /\ packet.NextState = HandshakeNextStateLogin
    /\ Len(messageJson) > 0

\* The mimic block of handleConnection: the packet after it.
MimicRewrite(packet, mimic, tail) ==
    IF Len(mimic) = 0 THEN packet
    ELSE The({ IF ~a.ok THEN packet
               ELSE The({ IF ~n.ok THEN packet
                          ELSE [packet EXCEPT !.Hostname = a.host \o tail,
                                              !.Port = ToUint16(n.v)]
                          : n \in {Atoi(a.port)} })
               : a \in {SplitHostPort(mimic)} })

\* An order that writes the handshake as soon as the dial succeeds.
NextStageHandshakeFirst(stage, route) ==
    CASE stage = "dial"      -> "handshake"
      [] stage = "handshake" ->
            IF 1 <= route.ProxyProtocol /\ route.ProxyProtocol <= 2 THEN "preamble" ELSE "mimic"
      [] stage = "preamble"  -> "mimic"
      [] stage = "mimic"     -> "forward"

\* The order of the blocks of handleConnection after the dial: the block that
\* follows a completed one.
NextStage(stage, route) ==
    CASE stage = "dial"      ->
            IF 1 <= route.ProxyProtocol /\ route.ProxyProtocol <= 2 THEN "preamble" ELSE "mimic"
      [] stage = "preamble"  -> "mimic"
      [] stage = "mimic"     -> "handshake"
      [] stage = "handshake" -> "forward"

\* A handler that goes on to the next block whatever the write returned.
AfterWriteIgnoresError(stage, route, ok) == NextStage(stage, route)

\* After a write to the upstream: the next block, or for a failed write the
\* return of the handler, which runs the deferred closes.
AfterWrite(stage, route, ok) ==
    IF ok THEN NextStage(stage, route) ELSE "defer_target"

\* Whether the client or the upstream socket has been closed by the router.
ClientClosed == clientConn.calls > 0
TargetClosed == targetConn.calls > 0

\* The route handleConnection selected.
Route == config.Routes[lookup.r]

\* time.AfterFunc(handshakeMaxTimeWait, ...): the deadline timer is armed.
ArmTimer ==
    /\ pc = "start"
    /\ timer' = "armed"
    /\ pc' = "read"
    /\ UNCHANGED <<routingVars, codecVars, handshakeTimeout, clientConn, targetConn, dialed,
                   hs, hostnameTail, exit, clientOut, upstreamOut, fwd, served, logged,
                   resolution, router>>

\* A reader that has fetched ahead from the socket all the client had sent.
LeftOnSocketReadAhead(r) == <<>>

\* What is left on the client socket once the packet has been read: the reader
\* is handed the connection itself and read calls io.ReadFull for the bytes
\* asked for and no more.
LeftOnSocket(r) == r.rest

\* protocol.ReadHandshakePacket(connReadWriter) returns, or panics. A read on
\* a socket the timer has closed fails; a stream that ends early fails.
ReadHandshake ==
    /\ pc = "read"
    /\ \E r \in { IF ClientClosed
                  THEN [kind |-> "error", hs |-> NoHandshake, rest |-> <<>>]
                  ELSE ReadHandshakePacket(stream) } :
          /\ parsed' = r
          /\ stream' = IF r.kind = "handshake" THEN LeftOnSocket(r) ELSE <<>>
          /\ hs' = IF r.kind = "handshake" THEN r.hs ELSE NoHandshake
          /\ pc' = IF r.kind = "panic" THEN "defer_client" ELSE "stop"
          /\ exit' = IF r.kind = "panic" THEN "panic"
                     ELSE IF ClientClosed THEN "closed" ELSE exit
    /\ UNCHANGED <<routingVars, timer, handshakeTimeout, clientConn, targetConn, dialed,
                   hostnameTail, clientOut, upstreamOut, fwd, served, logged,
                   resolution, router>>

\* The values the handler can find in handshakeTimeout. The callback writes
\* it and the handler reads it with no synchronisation but the socket: a read
\* that failed on the socket the callback closed comes after the write; any
\* other read of the latch once the callback has written it is a data race
\* and finds either value.
LatchSeen ==
    IF handshakeTimeout /\ exit # "closed" THEN {TRUE, FALSE} ELSE {handshakeTimeout}

\* deadlineTimer.Stop(), then the test of err: the read error is logged
\* unless the latch is found set.
StopTimer ==
    /\ pc = "stop"
    /\ timer' = IF timer = "armed" THEN "stopped" ELSE timer
    /\ pc' = IF parsed.kind = "error" THEN "defer_client" ELSE "route"
    /\ exit' = IF parsed.kind = "error" THEN "readerror" ELSE exit
    /\ \E seen \in LatchSeen :
          logged' = IF parsed.kind = "error" /\ ~seen
                    THEN logged \cup {"read error"} ELSE logged
    /\ UNCHANGED <<routingVars, codecVars, handshakeTimeout, clientConn, targetConn, dialed,
                   hs, hostnameTail, clientOut, upstreamOut, fwd, served,
                   resolution, router>>

\* A handler that dials the target of every route it finds.
AfterRouteIgnoresAction(cfg, r, leave) ==
    IF r = 0 THEN [pc |-> "defer_client", exit |-> "noroute"]
    ELSE [pc |-> "dial", exit |-> leave]

\* Where handleConnection goes once RouteFor has answered: it returns
\* without a route, rejects for the action reject, and dials otherwise.
AfterRoute(cfg, r, leave) ==
    IF r = 0 THEN [pc |-> "defer_client", exit |-> "noroute"]
    ELSE IF cfg.Routes[r].Action = Reject THEN [pc |-> "disconnect", exit |-> "reject"]
    ELSE [pc |-> "dial", exit |-> leave]

\* "Do Route": the hostname is cut at the first NUL, RouteFor is called, and
\* the handler returns, rejects or goes on to dial.
DoRoute ==
    /\ pc = "route"
    /\ \E hostname \in {SplitFirst(hs.Hostname, NUL)} :
         \E r \in {RouteFor(config, hostname, hs.Port)} :
            /\ hostnameTail' = SubSeq(hs.Hostname, Len(hostname) + 1, Len(hs.Hostname))
            /\ lookup' = [kind |-> "lookup", h |-> hostname, p |-> hs.Port, r |-> r]
            /\ pc' = AfterRoute(config, r, exit).pc
            /\ exit' = AfterRoute(config, r, exit).exit
    /\ UNCHANGED <<config, codecVars, timer, handshakeTimeout, clientConn, targetConn, dialed,
                   hs, clientOut, upstreamOut, fwd, served, logged,
                   resolution, router>>

\* The answers of net.DefaultResolver.LookupSRV: an error (a failure or a
\* timeout), no record, one record "s.":3, two records "s.":3 and "u.":4.
SrvAnswers ==
    { [err |-> TRUE,  addrs |-> <<>>],
      [err |-> FALSE, addrs |-> <<>>],
      [err |-> FALSE, addrs |-> << [Target |-> <<115, 46>>, Port |-> 3] >>],
      [err |-> FALSE, addrs |-> << [Target |-> <<115, 46>>, Port |-> 3],
                                   [Target |-> <<117, 46>>, Port |-> 4] >>] }

\* No lookup is made.
NoAnswer == [err |-> TRUE, addrs |-> <<>>]

\* dns.ResolveSrv, given the resolver's answer.
ResolveSrv(hostname, answer) ==
    IF answer.err THEN [err |-> TRUE, resolved |-> <<>>]
    ELSE IF Len(answer.addrs) = 0 THEN [err |-> TRUE, resolved |-> <<>>]
    ELSE [err |-> FALSE,
          resolved |-> FormatAddress(answer.addrs[1].Target, answer.addrs[1].Port)]

\* A resolveTarget that hands the failure of the SRV lookup to its caller.
resolveTargetStrict(route, answer) ==
    IF ~Contains(route.Target, Colon)
    THEN The({ [err |-> r.err, target |-> r.resolved, srvFailed |-> r.err]
               : r \in {ResolveSrv(route.Target, answer)} })
    ELSE [err |-> FALSE, target |-> route.Target, srvFailed |-> FALSE]

\* ConnectionHandler.resolveTarget, given the resolver's answer: the error and
\* the target it returns, and whether it logged a failed SRV resolution.
resolveTarget(route, answer) ==
    IF ~Contains(route.Target, Colon)
    THEN The({ IF ~r.err
               THEN [err |-> FALSE, target |-> r.resolved, srvFailed |-> FALSE]
               ELSE [err |-> FALSE, target |-> route.Target \o <<Colon, 50, 53, 53, 54, 53>>,
                     srvFailed |-> TRUE]
               : r \in {ResolveSrv(route.Target, answer)} })
    ELSE [err |-> FALSE, target |-> route.Target, srvFailed |-> FALSE]

\* "Connect to Target": resolveTarget, whose error ends the handler, then
\* net.DialTimeout, which returns a connection or an error.
Dial ==
    /\ pc = "dial"
    /\ \E answer \in (IF Contains(Route.Target, Colon) THEN {NoAnswer} ELSE SrvAnswers) :
         \E t \in {resolveTarget(Route, answer)} :
            /\ resolution' = [kind |-> "resolved", answer |-> answer,
                              err |-> t.err, target |-> t.target]
            /\ logged' = IF t.srvFailed THEN logged \cup {"srv failed"} ELSE logged
            /\ \E ok \in (IF t.err THEN {FALSE} ELSE BOOLEAN) :
                  /\ dialed' = ok
                  /\ pc' = IF t.err THEN "defer_client"
                           ELSE IF ok THEN NextStage("dial", Route) ELSE "disconnect"
                  /\ exit' = IF t.err THEN "resolvefail"
                             ELSE IF ok THEN exit ELSE "dialfail"
    /\ UNCHANGED <<routingVars, codecVars, timer, handshakeTimeout, clientConn, targetConn,
                   hs, hostnameTail, clientOut, upstreamOut, fwd, served, router>>

\* disconnectWithMessage up to its last line: the disconnect packet and the
\* CloseWrite, when the gate is open.
Disconnect ==
    /\ pc = "disconnect"
    /\ \E messageJson \in { IF exit = "reject" THEN Route.rejectMessageJson
                            ELSE Route.dialFailMessageJson } :
          IF DisconnectGate(hs, messageJson)
          THEN /\ clientOut' =
                    Append(clientOut,
                           [kind |-> "disconnect", Reason |-> messageJson,
                            bytes |-> WritePacket([kind |-> "disconnect",
                                                   Reason |-> messageJson]),
                            closed |-> ClientClosed])
               /\ logged' = IF ClientClosed THEN logged \cup {"disconnect write error"}
                            ELSE logged
               /\ pc' = "half_close"
          ELSE /\ pc' = "disconnect_close"
               /\ UNCHANGED <<clientOut, logged>>
    /\ UNCHANGED <<routingVars, codecVars, timer, handshakeTimeout, clientConn, targetConn,
                   dialed, hs, hostnameTail, exit, upstreamOut, fwd, served,
                   resolution, router>>

\* The flush of disconnectWithMessage: CloseWrite when the client connection is
\* a *net.TCPConn, nothing for another net.Conn; its error is dropped.
HalfClose ==
    /\ pc = "half_close"
    /\ \E isTcp \in BOOLEAN :
          clientOut' = IF isTcp
                       THEN Append(clientOut, [kind |-> "closeWrite", closed |-> ClientClosed])
                       ELSE clientOut
    /\ pc' = "disconnect_close"
    /\ UNCHANGED <<routingVars, codecVars, timer, handshakeTimeout, clientConn, targetConn,
                   dialed, hs, hostnameTail, exit, upstreamOut, fwd, served, logged,
                   resolution, router>>

\* The last line of disconnectWithMessage, closeClientConn(), then the return.
DisconnectClose ==
    /\ pc = "disconnect_close"
    /\ clientConn' = closeClientConn(clientConn)
    /\ pc' = "defer_client"
    /\ UNCHANGED <<routingVars, codecVars, timer, handshakeTimeout, targetConn, dialed,
                   hs, hostnameTail, exit, clientOut, upstreamOut, fwd, served, logged,
                   resolution, router>>

\* The transport of the PROXY header for the two address families.
TransportProtocol(clientIs4, targetIs4) ==
    IF clientIs4 /\ targetIs4 THEN "TCPv4"
    ELSE IF ~clientIs4 /\ ~targetIs4 THEN "TCPv6"
    ELSE "UNSPEC"

\* The PROXY protocol block: for mixed families an error is logged; in
\* every case the header is built and written to the upstream, or the write
\* fails and the handler returns.
WritePreamble ==
    /\ pc = "preamble"
    /\ \E clientIs4 \in BOOLEAN, targetIs4 \in BOOLEAN, ok \in BOOLEAN :
          /\ logged' = (IF clientIs4 # targetIs4 THEN logged \cup {"mixed families"}
                        ELSE logged)
                       \cup (IF ok THEN {} ELSE {"preamble write error"})
          /\ upstreamOut' =
                IF ok
                THEN Append(upstreamOut,
                            [kind |-> "preamble", Version |-> Route.ProxyProtocol,
                             TransportProtocol |-> TransportProtocol(clientIs4, targetIs4),
                             clientIs4 |-> clientIs4, targetIs4 |-> targetIs4])
                ELSE upstreamOut
          /\ pc' = AfterWrite("preamble", Route, ok)
          /\ exit' = IF ok THEN exit ELSE "writefail"
    /\ UNCHANGED <<routingVars, codecVars, timer, handshakeTimeout, clientConn, targetConn,
                   dialed, hs, hostnameTail, clientOut, fwd, served,
                   resolution, router>>

\* A mimic block that stores the rewritten address through the route pointer
\* as well: the route of the shared configuration has its Target overwritten.
MimicStoresInRoute(cfg, r, packet, tail) ==
    [packet |-> MimicRewrite(packet, cfg.Routes[r].Mimic, tail),
     config |-> [cfg EXCEPT !.Routes[r].Target = cfg.Routes[r].Mimic]]

\* What the mimic block stores, and where: it assigns through the pointers
\* GetHostname() and GetPort() of the handler's own packet; route, a pointer
\* into the shared Config, is only read.
MimicStores(cfg, r, packet, tail) ==
    [packet |-> MimicRewrite(packet, cfg.Routes[r].Mimic, tail), config |-> cfg]

\* The mimic block.
Rewrite ==
    /\ pc = "mimic"
    /\ \E m \in {MimicStores(config, lookup.r, hs, hostnameTail)} :
          /\ hs' = m.packet
          /\ config' = m.config
    /\ pc' = NextStage("mimic", Route)
    /\ UNCHANGED <<lookup, codecVars, timer, handshakeTimeout, clientConn, targetConn,
                   dialed, hostnameTail, exit, clientOut, upstreamOut, fwd, served, logged,
                   resolution, router>>

\* protocol.WritePacket(NewBufferReadWriter(targetConn), handshakePacket).
WriteHandshake ==
    /\ pc = "handshake"
    /\ \E ok \in BOOLEAN :
          /\ upstreamOut' =
                IF ok THEN Append(upstreamOut, [kind |-> "handshake", packet |-> hs,
                                                bytes |-> WritePacket(hs)])
                ELSE upstreamOut
          /\ pc' = AfterWrite("handshake", Route, ok)
          /\ exit' = IF ok THEN exit ELSE "writefail"
          /\ logged' = IF ok THEN logged ELSE logged \cup {"handshake write error"}
    /\ UNCHANGED <<routingVars, codecVars, timer, handshakeTimeout, clientConn, targetConn,
                   dialed, hs, hostnameTail, clientOut, fwd, served,
                   resolution, router>>

\* forward(): the two copy goroutines are started.
StartForward ==
    /\ pc = "forward"
    /\ fwd' = [c2t |-> "copying", t2c |-> "copying"]
    /\ pc' = "wait1"
    /\ UNCHANGED <<routingVars, codecVars, timer, handshakeTimeout, clientConn, targetConn,
                   dialed, hs, hostnameTail, exit, clientOut, upstreamOut, served, logged,
                   resolution, router>>

MaxServed == 1

\* io.Copy(target, client) moves the next byte of the client to the upstream.
CopyUp ==
    /\ fwd.c2t = "copying"
    /\ stream # <<>>
    /\ ~ClientClosed /\ ~TargetClosed
    /\ upstreamOut' = Append(upstreamOut, [kind |-> "data", byte |-> Head(stream)])
    /\ stream' = Tail(stream)
    /\ UNCHANGED <<routingVars, parsed, pc, timer, handshakeTimeout, clientConn, targetConn,
                   dialed, hs, hostnameTail, exit, clientOut, fwd, served, logged,
                   resolution, router>>

\* io.Copy(client, target) moves a byte of the upstream to the client.
CopyDown ==
    /\ fwd.t2c = "copying"
    /\ served < MaxServed
    /\ ~ClientClosed /\ ~TargetClosed
    /\ clientOut' = Append(clientOut, [kind |-> "data", closed |-> FALSE])
    /\ served' = served + 1
    /\ UNCHANGED <<routingVars, codecVars, pc, timer, handshakeTimeout, clientConn, targetConn,
                   dialed, hs, hostnameTail, exit, upstreamOut, fwd, logged,
                   resolution, router>>

\* io.Copy returns in one direction (end of stream, an error, a closed
\* socket); the goroutine goes on to send on doneChan.
CopyEnd ==
    \E d \in {"c2t", "t2c"} :
        /\ fwd[d] = "copying"
        /\ fwd' = [fwd EXCEPT ![d] = "sending"]
        /\ UNCHANGED <<routingVars, codecVars, pc, timer, handshakeTimeout, clientConn,
                       targetConn, dialed, hs, hostnameTail, exit, clientOut, upstreamOut,
                       served, logged,
                   resolution, router>>

\* The socket a copy direction reads from is closed.
SourceClosed(d) == IF d = "c2t" THEN ClientClosed ELSE TargetClosed

\* io.Copy returns in a direction whose source socket has been closed: the
\* pending Read fails.
CopyReturnsOnClose ==
    \E d \in {"c2t", "t2c"} :
        /\ fwd[d] = "copying"
        /\ SourceClosed(d)
        /\ fwd' = [fwd EXCEPT ![d] = "sending"]
        /\ UNCHANGED <<routingVars, codecVars, pc, timer, handshakeTimeout, clientConn,
                       targetConn, dialed, hs, hostnameTail, exit, clientOut, upstreamOut,
                       served, logged, resolution, router>>

\* A receive on doneChan meets the send of one goroutine.
ReceiveDone(from, to) ==
    /\ pc = from
    /\ \E d \in {"c2t", "t2c"} :
          /\ fwd[d] = "sending"
          /\ fwd' = [fwd EXCEPT ![d] = "exited"]
    /\ pc' = to
    /\ exit' = IF to = "defer_target" THEN "end" ELSE exit
    /\ UNCHANGED <<routingVars, codecVars, timer, handshakeTimeout, clientConn, targetConn,
                   dialed, hs, hostnameTail, clientOut, upstreamOut, served, logged,
                   resolution, router>>

\* A forward() that goes from the first receive straight to the second.
FirstDoneNoClose == ReceiveDone("wait1", "wait2")

FirstDone == ReceiveDone("wait1", "close_client")

SecondDone == ReceiveDone("wait2", "defer_target")

\* closeConnectionFunc, first line: closeClientConn().
ForwardCloseClient ==
    /\ pc = "close_client"
    /\ clientConn' = closeClientConn(clientConn)
    /\ pc' = "close_target"
    /\ UNCHANGED <<routingVars, codecVars, timer, handshakeTimeout, targetConn, dialed,
                   hs, hostnameTail, exit, clientOut, upstreamOut, fwd, served, logged,
                   resolution, router>>

\* closeConnectionFunc, second line: closeTargetConn().
ForwardCloseTarget ==
    /\ pc = "close_target"
    /\ targetConn' = closeTargetConn(targetConn)
    /\ pc' = "wait2"
    /\ UNCHANGED <<routingVars, codecVars, timer, handshakeTimeout, clientConn, dialed,
                   hs, hostnameTail, exit, clientOut, upstreamOut, fwd, served, logged,
                   resolution, router>>

\* defer closeTargetConn(), registered once the dial has succeeded.
DeferTarget ==
    /\ pc = "defer_target"
    /\ targetConn' = closeTargetConn(targetConn)
    /\ pc' = "defer_client"
    /\ UNCHANGED <<routingVars, codecVars, timer, handshakeTimeout, clientConn, dialed,
                   hs, hostnameTail, exit, clientOut, upstreamOut, fwd, served, logged,
                   resolution, router>>

\* defer closeClientConn(); after it the handler has returned, or the panic
\* of the read has left the goroutine and ended the process.
DeferClient ==
    /\ pc = "defer_client"
    /\ clientConn' = closeClientConn(clientConn)
    /\ pc' = IF exit = "panic" THEN "crashed" ELSE "returned"
    /\ UNCHANGED <<routingVars, codecVars, timer, handshakeTimeout, targetConn, dialed,
                   hs, hostnameTail, exit, clientOut, upstreamOut, fwd, served, logged,
                   resolution, router>>

\* The deadline passes before Stop: the callback starts and logs the timeout.
TimerFire ==
    /\ timer = "armed"
    /\ pc # "crashed"
    /\ timer' = "fired"
    /\ logged' = logged \cup {"handshake timeout"}
    /\ UNCHANGED <<routingVars, codecVars, pc, handshakeTimeout, clientConn, targetConn,
                   dialed, hs, hostnameTail, exit, clientOut, upstreamOut, fwd, served,
                   resolution, router>>

\* The callback: handshakeTimeout = true.
TimerLatch ==
    /\ timer = "fired"
    /\ pc # "crashed"
    /\ handshakeTimeout' = TRUE
    /\ timer' = "latched"
    /\ UNCHANGED <<routingVars, codecVars, pc, clientConn, targetConn, dialed, hs,
                   hostnameTail, exit, clientOut, upstreamOut, fwd, served, logged,
                   resolution, router>>

\* The callback: closeClientConn().
TimerClose ==
    /\ timer = "latched"
    /\ pc # "crashed"
    /\ clientConn' = closeClientConn(clientConn)
    /\ timer' = "done"
    /\ UNCHANGED <<routingVars, codecVars, pc, handshakeTimeout, targetConn, dialed, hs,
                   hostnameTail, exit, clientOut, upstreamOut, fwd, served, logged,
                   resolution, router>>

----------------------------------------------------------------------------
(* The connection specification: one accepted connection, handled by
   handleConnection from its first line to its return, with the deadline
   timer and the two copy goroutines running beside it. *)

\* "t": a target without a port
SrvTarget == <<116>>

\* "m:2", "m:x", "m:65538"
ConnMimics == { <<>>, <<109, 58, 50>>, <<109, 58, 120>>, <<109, 58, 54, 53, 53, 51, 56>> }

\* "no"
ConnMessage == <<110, 111>>

\* The routes of a connection's configuration: one route matching "a" that
\* forwards (with or without mimic and PROXY protocol) or rejects, with a
\* reject message, a dial-fail message or neither, or forwards to a target
\* without a port; and a default route.
ConnRoutes ==
    { MkRoute("foo", << <<97>> >>, "", PlainTarget, mimic, pp, msgs[1], msgs[2]) :
        mimic \in ConnMimics, pp \in {0, 2},
        msgs \in { <<NoMessage, NoMessage>>, <<NoMessage, ConnMessage>> } }
    \cup
    { MkRoute("foo", << <<97>> >>, Reject, PlainTarget, <<>>, 0, msg, NoMessage) :
        msg \in {NoMessage, ConnMessage} }
    \cup
    { MkRoute("foo", << <<97>> >>, "", SrvTarget, <<>>, 0, NoMessage, NoMessage) }

ConnDefaultRoute == MkRoute(DefaultRouteName, <<>>, "", PlainTarget, <<>>, 1, NoMessage, NoMessage)

ConnConfigs ==
    { ConfigInit(rs) :
        rs \in { q \in { <<r>> : r \in ConnRoutes } \cup { <<r, ConnDefaultRoute>> : r \in ConnRoutes } :
                 ValidConfig(q) } }

\* What a client sends:
\*   a login handshake for "a":25565, followed by one byte of the login;
\*   a status handshake for "a\x00F":25565;
\*   a login handshake and a status handshake for "b":25565;
\*   a login handshake for "a":25565, followed by two bytes of the login;
\*   a legacy server list ping for "a":25565;
\*   a packet length of -1;
\*   a handshake cut short.
ConnStreams ==
    { <<7, 0, 47, 1, 97, 99, 221, 2, 1>>,
      <<9, 0, 47, 3, 97, 0, 70, 99, 221, 1>>,
      <<7, 0, 47, 1, 98, 99, 221, 2>>,
      <<7, 0, 47, 1, 98, 99, 221, 1>>,
      <<7, 0, 47, 1, 97, 99, 222, 2, 5, 6>>,
      legacyServerPingHead \o <<0, 9, 73, 0, 1, 0, 97, 0, 0, 99, 221>>,
      <<255, 255, 255, 255, 15>>,
      <<7, 0, 47>> }

Init ==
    /\ config \in ConnConfigs
    /\ lookup = NoLookup
    /\ stream \in ConnStreams
    /\ parsed = NoParse
    /\ pc = "start"
    /\ timer = "idle"
    /\ handshakeTimeout = FALSE
    /\ clientConn = NewOnce
    /\ targetConn = NewOnce
    /\ dialed = FALSE
    /\ hs = NoHandshake
    /\ hostnameTail = <<>>
    /\ exit = "none"
    /\ clientOut = <<>>
    /\ upstreamOut = <<>>
    /\ fwd = NoForward
    /\ served = 0
    /\ resolution = NoResolution
    /\ logged = {}
    /\ router = NoRouter

Next ==
    \/ ArmTimer
    \/ ReadHandshake
    \/ StopTimer
    \/ DoRoute
    \/ Dial
    \/ Disconnect
    \/ HalfClose
    \/ DisconnectClose
    \/ WritePreamble
    \/ Rewrite
    \/ WriteHandshake
    \/ StartForward
    \/ CopyUp
    \/ CopyDown
    \/ CopyEnd
    \/ CopyReturnsOnClose
    \/ FirstDone
    \/ ForwardCloseClient
    \/ ForwardCloseTarget
    \/ SecondDone
    \/ DeferTarget
    \/ DeferClient
    \/ TimerFire
    \/ TimerLatch
    \/ TimerClose

Spec == Init /\ [][Next]_vars

\* The scheduling of forward(): the handler goroutine runs when it can (a
\* receive on doneChan completes when a goroutine is sending, the closure
\* closes both sockets), and a copy whose source socket is closed returns.
\* A copy is not assumed to end by itself: a peer may stay silent for ever.
ForwardFairness ==
    /\ WF_vars(FirstDone)
    /\ WF_vars(ForwardCloseClient)
    /\ WF_vars(ForwardCloseTarget)
    /\ WF_vars(SecondDone)
    /\ WF_vars(CopyReturnsOnClose)

SpecFair == Spec /\ ForwardFairness

----------------------------------------------------------------------------
(* Connection properties *)

\* C5: the client socket's Close is never invoked twice, and it has been
\* invoked exactly once when handleConnection has returned, whichever of the
\* deferred call, the timer callback, disconnectWithMessage and the closure
\* handed to forward() called closeClientConn, and in whatever order.
C5_ClientClosedOnce ==
    /\ clientConn.calls <= 1
    /\ (pc \in {"returned", "crashed"} => clientConn.calls = 1)

\* The handler returned after forwarding, the timer callback having run too:
\* the callback, the forward closure and the deferred call all closed.
C5_Witness ==
    /\ pc = "returned"
    /\ exit = "end"
    /\ timer = "done"
    /\ clientConn.calls = 1

\* C6: the upstream socket's Close is never invoked twice; it is never invoked
\* when no dial succeeded; and when the dial succeeded it has been invoked
\* exactly once by the time handleConnection has returned.
C6_TargetClosedOnce ==
    /\ targetConn.calls <= 1
    /\ (~dialed => targetConn.calls = 0)
    /\ (pc = "returned" /\ dialed => targetConn.calls = 1)

\* The handler returned after forwarding: the forward closure and the
\* deferred call both closed the upstream.
C6_Witness ==
    /\ pc = "returned"
    /\ dialed
    /\ exit = "end"
    /\ fwd = [c2t |-> "exited", t2c |-> "exited"]
    /\ targetConn.calls = 1

DisconnectSent == \E i \in 1..Len(clientOut) : clientOut[i].kind = "disconnect"

\* C8: on the reject path and on the dial-failure path the handler writes a
\* disconnect packet on the client socket exactly when the handshake is a
\* modern one with next state 2 and the path's message JSON is not empty, and
\* then it carries that JSON and goes to a socket that is open unless the
\* timer callback has closed it; otherwise nothing is written; the client
\* socket is closed once disconnectWithMessage has returned; no other path
\* writes a disconnect.
C8_DisconnectGate ==
    /\ (exit \notin {"reject", "dialfail"} => ~DisconnectSent)
    /\ (exit \in {"reject", "dialfail"} /\ pc \in {"disconnect_close", "defer_client", "returned"}
          => LET messageJson == IF exit = "reject" THEN Route.rejectMessageJson
                                ELSE Route.dialFailMessageJson
             IN  /\ DisconnectSent <=>
                        (hs.kind = "modern" /\ hs.NextState = 2 /\ messageJson # <<>>)
                 /\ (DisconnectSent => /\ clientOut[1].kind = "disconnect"
                                       /\ clientOut[1].Reason = messageJson
                                       /\ (clientOut[1].closed => timer = "done"))
                 /\ (~DisconnectSent => clientOut = <<>>))
    /\ (exit \in {"reject", "dialfail"} /\ pc \in {"defer_client", "returned"}
          => clientConn.calls = 1)

\* A login handshake was rejected by a route with the reject message "no":
\* the client got the disconnect packet with the JSON string "no".
C8_Witness ==
    /\ pc = "returned"
    /\ exit = "reject"
    /\ hs.kind = "modern"
    /\ Len(clientOut) > 0
    /\ clientOut[1].kind = "disconnect"
    /\ clientOut[1].Reason = <<34, 110, 111, 34>>
    /\ ~clientOut[1].closed
    /\ clientConn.calls = 1

\* C9: what is written to the upstream is, in this order, the PROXY header
\* (when the route enables it, and only then), the handshake, the bytes
\* copied from the client; and the handshake written is the packet as the
\* mimic block left it.
C9_UpstreamOrder ==
    \A j \in 1..Len(upstreamOut) :
        /\ (upstreamOut[j].kind = "preamble" =>
                j = 1 /\ Route.ProxyProtocol \in 1..2)
        /\ (upstreamOut[j].kind = "handshake" =>
                /\ j = (IF Route.ProxyProtocol \in 1..2 THEN 2 ELSE 1)
                /\ \A i \in 1..(j - 1) : upstreamOut[i].kind = "preamble"
                /\ upstreamOut[j].packet = hs)
        /\ (upstreamOut[j].kind = "data" =>
                \E i \in 1..(j - 1) : upstreamOut[i].kind = "handshake")

\* A PROXY header, a handshake changed by the mimic block, and a byte of the
\* client's login were written to the upstream.
C9_Witness ==
    /\ Len(upstreamOut) = 3
    /\ upstreamOut[1].kind = "preamble"
    /\ upstreamOut[2].kind = "handshake"
    /\ upstreamOut[2].packet # parsed.hs
    /\ upstreamOut[3].kind = "data"

\* The hostname tail of a raw hostname: from its first NUL on.
TailOf(raw) ==
    IF IndexByte(raw, NUL) = 0 THEN <<>> ELSE SubSeq(raw, IndexByte(raw, NUL), Len(raw))

\* What a reader of the protocol finds in the handshake bytes the upstream got.
Forwarded(item) == ReadHandshakePacket(item.bytes)

\* C10: when the selected route has a mimic "host:port" whose port is a
\* decimal number in 0..65535, the handshake the upstream receives has the
\* hostname host followed by the hostname tail of the hostname the client
\* sent, and the port of the mimic.
C10_MimicRewrite ==
    \A j \in 1..Len(upstreamOut) :
        upstreamOut[j].kind = "handshake" =>
            LET m == SplitHostPort(Route.Mimic)
            IN  (Len(Route.Mimic) > 0 /\ m.ok /\ IsDigits(m.port) /\ Len(m.port) <= 5
                    /\ DigitsValue(m.port) <= 65535)
                => /\ Forwarded(upstreamOut[j]).kind = "handshake"
                   /\ Forwarded(upstreamOut[j]).hs.Hostname = m.host \o TailOf(parsed.hs.Hostname)
                   /\ Forwarded(upstreamOut[j]).hs.Port = DigitsValue(m.port)

\* C11: forward() runs both copy directions at once; its closure closes the
\* upstream only after a first direction has completed; once the first
\* completion has been received and the closure has run both sockets are
\* closed and the other direction is still to be awaited; and forward()
\* returns (the handler goes on to its deferred calls with the splice ended)
\* only when both directions have finished.
C11_ForwardClosesThenWaits ==
    /\ (pc = "wait1" => targetConn.calls = 0
                        /\ fwd.c2t # "exited" /\ fwd.t2c # "exited")
    /\ (pc \in {"close_client", "close_target", "wait2"} =>
            Cardinality({d \in {"c2t", "t2c"} : fwd[d] = "exited"}) = 1)
    /\ (pc = "wait2" => clientConn.calls = 1 /\ targetConn.calls = 1)
    /\ (exit = "end" => /\ fwd = [c2t |-> "exited", t2c |-> "exited"]
                        /\ clientConn.calls = 1 /\ targetConn.calls = 1)

\* The upstream-to-client direction has completed and both sockets are
\* closed while the client-to-upstream direction is still copying.
C11_Witness ==
    /\ pc = "wait2"
    /\ fwd = [c2t |-> "copying", t2c |-> "exited"]
    /\ clientConn.calls = 1
    /\ targetConn.calls = 1

TimerFired == timer \in {"fired", "latched", "done"}

\* C12: once the deadline timer has fired, the latch is set before the
\* callback closes the client socket, the handshake read returns no
\* handshake, no read error is logged, no route is selected and no upstream is dialed.
C12_TimerFiredHandlerReturns ==
    TimerFired =>
        /\ (timer = "done" => handshakeTimeout)
        /\ parsed.kind # "handshake"
        /\ "read error" \notin logged
        /\ lookup = NoLookup
        /\ ~dialed

\* C13: every handshake written to an upstream is in the modern framing,
\* also when the client sent the legacy server list ping: its bytes do not
\* start with the legacy magic and they read back as a modern handshake.
C13_ModernFramingUpstream ==
    \A j \in 1..Len(upstreamOut) :
        upstreamOut[j].kind = "handshake" =>
            /\ upstreamOut[j].bytes[1] # legacyHandshakeMagic
            /\ Forwarded(upstreamOut[j]).kind = "handshake"
            /\ Forwarded(upstreamOut[j]).hs.kind = "modern"

\* C14: a PROXY header is written to the upstream only when the client and
\* the upstream endpoint are of the same IP family, as TCPv4 when both are
\* IPv4 and as TCPv6 when both are IPv6; for mixed families no header is
\* written.
C14_NoPreambleOnMixedFamilies ==
    \A j \in 1..Len(upstreamOut) :
        upstreamOut[j].kind = "preamble" =>
            /\ upstreamOut[j].clientIs4 = upstreamOut[j].targetIs4
            /\ upstreamOut[j].TransportProtocol =
                   (IF upstreamOut[j].clientIs4 THEN "TCPv4" ELSE "TCPv6")

Resolved == resolution.kind = "resolved"

\* C15: resolveTarget returns no error; it returns a target that contains
\* ':' as it is, the first SRV record as "target:port" for a target without
\* a port whose lookup succeeded with a non-empty answer, and the target
\* followed by ":25565" when the lookup failed or was empty; no handler ends
\* on a failed resolution, and a handler that selected a forward route and
\* has left "Connect to Target" has dialed.
C15_ResolveTargetNeverFails ==
    /\ exit # "resolvefail"
    /\ (Resolved =>
          /\ ~resolution.err
          /\ resolution.target =
                (IF \E i \in 1..Len(Route.Target) : Route.Target[i] = 58
                 THEN Route.Target
                 ELSE IF ~resolution.answer.err /\ resolution.answer.addrs # <<>>
                 THEN Head(resolution.answer.addrs).Target \o <<58>>
                      \o Itoa(Head(resolution.answer.addrs).Port)
                 ELSE Route.Target \o <<58, 50, 53, 53, 54, 53>>)
          /\ (dialed \/ exit = "dialfail"))
    /\ (Looked /\ lookup.r # 0 /\ pc \notin {"route", "dial"}
            /\ config.Routes[lookup.r].Action = Forward
          => Resolved)

\* The targets "t" resolved through the SRV record "s.":3 and through a
\* failed lookup: "s.:3" has been dialed.
C15_Witness ==
    /\ Resolved
    /\ Route.Target = <<116>>
    /\ Len(resolution.answer.addrs) = 2
    /\ resolution.target = <<115, 46, 58, 51>>
    /\ dialed


\* C20: a disconnect packet that was written to the open client socket is
\* followed on that socket by the half-close and only then by the close: no
\* half-close finds the socket already closed, the half-close comes right
\* after the packet, and nothing is written to the client after it.
C20_DisconnectOrder ==
    \A i \in DOMAIN clientOut :
        clientOut[i].kind = "closeWrite" =>
            /\ i > 1
            /\ clientOut[i - 1].kind = "disconnect"
            /\ i = Len(clientOut)
            /\ (~clientOut[i - 1].closed => ~clientOut[i].closed)

\* The handshake named an address that no match of the configuration covers,
\* and the configuration has no default route.
Unrouted ==
    /\ Looked
    /\ DefaultOf(config) = 0
    /\ NormAddress \notin HostPortKeys(config)
    /\ NormHost \notin HostOnlyKeys(config)

C25_ConfigImmutable == [][config' = config]_vars

\* A handler has rewritten the handshake of its packet for a mimic route and
\* written it upstream, and the configuration is still what Config.Init builds
\* from its routes.
C25_Witness ==
    /\ pc = "returned"
    /\ Looked
    /\ lookup.r # 0
    /\ Len(Route.Mimic) > 0
    /\ hs.Hostname # parsed.hs.Hostname
    /\ \E j \in 1..Len(upstreamOut) : upstreamOut[j].kind = "handshake"
    /\ config = ConfigInit(config.Routes)

\* The handler has a handshake and is past deadlineTimer.Stop().
PastStop ==
    /\ parsed.kind = "handshake"
    /\ pc \notin {"start", "read", "stop", "crashed"}

\* C27: once ReadHandshakePacket has returned a handshake and the handler has
\* gone on past deadlineTimer.Stop(), no step of the timer callback sets the
\* timeout latch or closes the client socket.
C27_DeadlineCancelled ==
    [][ PastStop => /\ handshakeTimeout' = handshakeTimeout
                    /\ (timer' # timer => clientConn' = clientConn) ]_vars

\* One copy direction of forward() has ended.
OneCopyEnded == \E d \in {"c2t", "t2c"} : fwd[d] \in {"sending", "exited"}

\* forward() has returned and both copy goroutines have completed their send.
ForwardReturned ==
    /\ pc \in {"defer_target", "defer_client", "returned"}
    /\ fwd = [c2t |-> "exited", t2c |-> "exited"]
    /\ ClientClosed
    /\ TargetClosed

\* C28: once a copy direction of forward() has ended, forward() returns:
\* both sockets get closed, the other copy returns, both goroutines complete
\* their send on doneChan, and none is still copying or sending after the
\* return.
C28_ForwardTerminates == OneCopyEnded ~> ForwardReturned

\* forward() has returned after the upstream-to-client copy ended first while
\* the client had not sent all its bytes.
C28_Witness ==
    /\ ForwardReturned
    /\ stream # <<>>
    /\ served = MaxServed

\* The handler selected a route whose action is reject.
RejectSelected ==
    /\ Looked
    /\ lookup.r # 0
    /\ Route.Action = Reject

\* C33: once a route with the action reject is selected, no target is
\* resolved, no upstream is dialed, nothing is written to an upstream and no
\* copy starts; the client gets at most one disconnect packet, carrying the
\* route's reject message and only when the gate of disconnectWithMessage is
\* open, followed by nothing but the half-close, and the handler returns with
\* the client socket closed.
C33_RejectNeverDials ==
    RejectSelected =>
        /\ exit = "reject"
        /\ resolution = NoResolution
        /\ ~dialed
        /\ upstreamOut = <<>>
        /\ fwd = NoForward
        /\ pc \in {"disconnect", "half_close", "disconnect_close", "defer_client", "returned"}
        /\ Len(clientOut) <= 2
        /\ \A i \in DOMAIN clientOut :
              /\ clientOut[i].kind = (IF i = 1 THEN "disconnect" ELSE "closeWrite")
              /\ clientOut[i].kind = "disconnect" =>
                    /\ clientOut[i].Reason = Route.rejectMessageJson
                    /\ DisconnectGate(hs, Route.rejectMessageJson)
        /\ (~DisconnectGate(hs, Route.rejectMessageJson) => clientOut = <<>>)
        /\ (pc = "returned" => ClientClosed)

\* A login handshake was rejected with a message: the disconnect packet and
\* the half-close went to the client and the handler returned.
C33_Witness ==
    /\ RejectSelected
    /\ pc = "returned"
    /\ Len(clientOut) = 2
    /\ clientOut[1].kind = "disconnect"
    /\ ~clientOut[1].closed
    /\ ClientClosed
    /\ ~dialed

\* The write of the PROXY header, or of the handshake, to the upstream failed.
PreambleWriteFailed == "preamble write error" \in logged
HandshakeWriteFailed == "handshake write error" \in logged

\* The kinds of what the upstream has been sent.
UpstreamKinds == { upstreamOut[i].kind : i \in DOMAIN upstreamOut }

\* C34: after a failed write of the PROXY header nothing at all reaches the
\* upstream, and after a failed write of the handshake no handshake does; in
\* both cases no copy is started, no client byte is forwarded, the handler
\* goes straight to its deferred closes and returns with both sockets closed.
C34_WriteFailureAborts ==
    /\ PreambleWriteFailed => upstreamOut = <<>>
    /\ HandshakeWriteFailed => UpstreamKinds \subseteq {"preamble"}
    /\ (PreambleWriteFailed \/ HandshakeWriteFailed) =>
          /\ exit = "writefail"
          /\ ~(PreambleWriteFailed /\ HandshakeWriteFailed)
          /\ fwd = NoForward
          /\ served = 0
          /\ clientOut = <<>>
          /\ pc \in {"defer_target", "defer_client", "returned"}
          /\ (pc \in {"defer_client", "returned"} => TargetClosed)
          /\ (pc = "returned" => ClientClosed)

\* The PROXY header was written, the handshake write failed, and the handler
\* returned with both sockets closed.
C34_Witness ==
    /\ HandshakeWriteFailed
    /\ UpstreamKinds = {"preamble"}
    /\ pc = "returned"
    /\ ClientClosed
    /\ TargetClosed

\* The route's mimic is an address "host:port" whose port strconv.Atoi reads.
WellFormedMimic ==
    /\ Len(Route.Mimic) > 0
    /\ SplitHostPort(Route.Mimic).ok
    /\ Atoi(SplitHostPort(Route.Mimic).port).ok

\* C35 (as claimed): the handshake written to the upstream has the framing,
\* the protocol and the next state of the handshake that was read; its
\* hostname and port differ from the ones read only for a route with a
\* well-formed mimic; and for a route without mimic the bytes written read
\* back as the handshake that was read, raw hostname (tail included) and port.
C35_ForwardedUnchanged ==
    \A j \in DOMAIN upstreamOut :
        upstreamOut[j].kind = "handshake" =>
            /\ upstreamOut[j].packet.kind = parsed.hs.kind
            /\ upstreamOut[j].packet.Protocol = parsed.hs.Protocol
            /\ (parsed.hs.kind = "modern" =>
                    upstreamOut[j].packet.NextState = parsed.hs.NextState)
            /\ (~WellFormedMimic => upstreamOut[j].packet = parsed.hs)
            /\ (Len(Route.Mimic) = 0 =>
                    /\ Forwarded(upstreamOut[j]).kind = "handshake"
                    /\ Forwarded(upstreamOut[j]).hs = parsed.hs)

\* What the client sent on this connection, found again from what the read
\* returned and left.
Sent == CHOOSE s \in ConnStreams : ReadHandshakePacket(s) = parsed

\* The number of bytes the handshake packet at the head of s occupies: for the
\* modern framing the length prefix and the frame it announces, for a legacy
\* ping the magic, the remaining-length field and the bytes it announces.
PacketExtent(s) ==
    IF s[1] = legacyHandshakeMagic
    THEN Len(legacyServerPingHead) + 2
            + (s[Len(legacyServerPingHead) + 1] * 256 + s[Len(legacyServerPingHead) + 2])
    ELSE Len(WriteVarInt(ReadVarInt(NewBufferReadWriter(s)).v))
            + ReadVarInt(NewBufferReadWriter(s)).v

RECURSIVE DataBytes(_)
\* The client bytes among what the upstream was sent, in the order sent.
DataBytes(out) ==
    IF out = <<>> THEN <<>>
    ELSE IF Head(out).kind = "data" THEN <<Head(out).byte>> \o DataBytes(Tail(out))
    ELSE DataBytes(Tail(out))

\* C36: ReadHandshakePacket takes from the client stream the bytes of the
\* handshake packet and no more; from then on the bytes forwarded to the
\* upstream, followed by the bytes still on the client socket, are the bytes
\* the client sent after the packet (none lost, none twice, in order), and in
\* the upstream output they come after the handshake, which comes after the
\* PROXY header if there is one.
C36_SpliceTransparent ==
    parsed.kind = "handshake" =>
        /\ \E s \in ConnStreams : ReadHandshakePacket(s) = parsed
        /\ parsed.rest = SubSeq(Sent, PacketExtent(Sent) + 1, Len(Sent))
        /\ DataBytes(upstreamOut) \o stream = parsed.rest
        /\ \A j \in DOMAIN upstreamOut :
              /\ upstreamOut[j].kind = "data" =>
                    /\ j > 1
                    /\ upstreamOut[j - 1].kind \in {"handshake", "data"}
              /\ upstreamOut[j].kind = "handshake" =>
                    \A i \in 1..(j - 1) : upstreamOut[i].kind = "preamble"
              /\ upstreamOut[j].kind = "preamble" => j = 1

\* The PROXY header, the handshake and the two bytes the client sent after it
\* have reached the upstream, in that order.
C36_Witness ==
    /\ parsed.kind = "handshake"
    /\ Len(upstreamOut) = 4
    /\ upstreamOut[1].kind = "preamble"
    /\ upstreamOut[2].kind = "handshake"
    /\ DataBytes(upstreamOut) = <<5, 6>>
    /\ stream = <<>>

\* The mimic of the selected route names a port that is an integer of 0..65535.
MimicPortInRange ==
    /\ WellFormedMimic
    /\ Atoi(SplitHostPort(Route.Mimic).port).v \in 0..65535

\* C38 (as claimed): a handshake written to the upstream of a route with a
\* mimic carries the numeric port of the mimic string when that port is an
\* integer of 0..65535, and otherwise the hostname and the port the client
\* sent: no port reduced modulo 2^16 is written.
C38_MimicPortExact ==
    \A j \in DOMAIN upstreamOut :
        (upstreamOut[j].kind = "handshake" /\ Len(Route.Mimic) > 0) =>
            IF MimicPortInRange
            THEN upstreamOut[j].packet.Port = Atoi(SplitHostPort(Route.Mimic).port).v
            ELSE /\ upstreamOut[j].packet.Hostname = parsed.hs.Hostname
                 /\ upstreamOut[j].packet.Port = parsed.hs.Port

----------------------------------------------------------------------------
(* The router specification: main, MinecraftRouter.Run with its accept loop,
   the goroutine that closes the listener, and the connection handlers, each
   of them a pending task of the wait group. *)

MaxAccepts == 3

\* main has called "go r.Run()" and waits for a signal.
InitRouter ==
    /\ router = [main |-> "waiting", run |-> "starting", closer |-> "idle",
                 listener |-> "none", accepted |-> 0, pending |-> 0, killed |-> 0]
    /\ RoutingIdle
    /\ CodecIdle
    /\ pc = "idle"
    /\ timer = "idle"
    /\ handshakeTimeout = FALSE
    /\ clientConn = NewOnce
    /\ targetConn = NewOnce
    /\ dialed = FALSE
    /\ hs = NoHandshake
    /\ hostnameTail = <<>>
    /\ exit = "none"
    /\ clientOut = <<>>
    /\ upstreamOut = <<>>
    /\ fwd = NoForward
    /\ served = 0
    /\ resolution = NoResolution
    /\ logged = {}

Alive == router.main # "exited" /\ router.run # "fatal"

\* Run: net.Listen; on success the goroutine waiting on stopCh is started,
\* on failure log.Fatalf ends the process.
RunListen ==
    /\ Alive
    /\ router.run = "starting"
    /\ \E ok \in BOOLEAN :
          router' = IF ok
                    THEN [router EXCEPT !.run = "accepting", !.listener = "open",
                                        !.closer = "waiting"]
                    ELSE [router EXCEPT !.run = "fatal", !.killed = router.pending]
    /\ UNCHANGED <<routingVars, codecVars, connVars>>

\* Run: listener.Accept() returns a connection; wg.Add(1) and the handler
\* goroutine is started.
Accept ==
    /\ Alive
    /\ router.run = "accepting"
    /\ router.listener = "open"
    /\ router.accepted < MaxAccepts
    /\ router' = [router EXCEPT !.accepted = router.accepted + 1,
                                !.pending = router.pending + 1]
    /\ UNCHANGED <<routingVars, codecVars, connVars>>

\* Run: listener.Accept() fails on the closed listener; the loop ends and
\* Run goes on to wg.Wait().
AcceptFails ==
    /\ Alive
    /\ router.run = "accepting"
    /\ router.listener = "closed"
    /\ router' = [router EXCEPT !.run = "draining"]
    /\ UNCHANGED <<routingVars, codecVars, connVars>>

\* A handler goroutine: handleConnection has returned, wg.Done().
HandlerDone ==
    /\ Alive
    /\ router.pending > 0
    /\ router' = [router EXCEPT !.pending = router.pending - 1]
    /\ UNCHANGED <<routingVars, codecVars, connVars>>

\* Run: wg.Wait() returns, "All connection closed", Run returns.
RunReturns ==
    /\ Alive
    /\ router.run = "draining"
    /\ router.pending = 0
    /\ router' = [router EXCEPT !.run = "returned"]
    /\ UNCHANGED <<routingVars, codecVars, connVars>>

\* main: a signal arrives on ch; main calls r.Stop().
Signal ==
    /\ Alive
    /\ router.main = "waiting"
    /\ router' = [router EXCEPT !.main = "stopping"]
    /\ UNCHANGED <<routingVars, codecVars, connVars>>

\* Stop: the send on the unbuffered stopCh meets the receive of the closer
\* goroutine; Stop returns.
StopHandshake ==
    /\ Alive
    /\ router.main = "stopping"
    /\ router.closer = "waiting"
    /\ router' = [router EXCEPT !.main = "stop returned", !.closer = "received"]
    /\ UNCHANGED <<routingVars, codecVars, connVars>>

\* The closer goroutine: listener.Close().
CloseListener ==
    /\ Alive
    /\ router.closer = "received"
    /\ router' = [router EXCEPT !.closer = "done", !.listener = "closed"]
    /\ UNCHANGED <<routingVars, codecVars, connVars>>

\* main: log.Infof("SMCR stopped").
ReportStopped ==
    /\ Alive
    /\ router.main = "stop returned"
    /\ router' = [router EXCEPT !.main = "reported"]
    /\ UNCHANGED <<routingVars, codecVars, connVars>>

\* main returns: the process ends and takes every goroutine with it; killed
\* counts the handlers that had not finished.
MainReturns ==
    /\ Alive
    /\ router.main = "reported"
    /\ router' = [router EXCEPT !.main = "exited", !.killed = router.pending]
    /\ UNCHANGED <<routingVars, codecVars, connVars>>

NextRouter ==
    \/ RunListen
    \/ Accept
    \/ AcceptFails
    \/ HandlerDone
    \/ RunReturns
    \/ Signal
    \/ StopHandshake
    \/ CloseListener
    \/ ReportStopped
    \/ MainReturns

SpecRouter == InitRouter /\ [][NextRouter]_vars

----------------------------------------------------------------------------
(* Router properties *)

\* C16: once Stop has returned and the router is reported stopped, the
\* listener is closed, the accept loop has ended and every connection task
\* has finished; no handler is cut off by the end of the process.
C16_StoppedAfterTasks ==
    /\ (router.main \in {"reported", "exited"} =>
            /\ router.listener = "closed"
            /\ router.run \in {"draining", "returned"}
            /\ router.pending = 0)
    /\ router.killed = 0

----------------------------------------------------------------------------
(* The configuration specification: main loads a configuration file and
   Config.Init prepares it or ends the process with log.Fatalf. *)

\* The routes of a configuration file: named or default, matching "a" or
\* "a:1" or nothing, with no action, forward, reject or an unknown action,
\* with the target "t:1", "t" or none, the mimic "m:2", "m" or none, and the
\* PROXY protocol version 0, 2 or 3.
\* The messages of a configuration file: none, and
\*   no  "no"  {}  {"text": "no"}  true  01  "  a"b  \  (space)  <  (newline)
\*   "a  "\"
FileMessages ==
    { NoMessage, <<110, 111>>, <<34, 110, 111, 34>>, <<123, 125>>,
      <<123, 34, 116, 101, 120, 116, 34, 58, 32, 34, 110, 111, 34, 125>>,
      <<116, 114, 117, 101>>, <<48, 49>>, <<34>>, <<97, 34, 98>>, <<92>>, <<32>>,
      <<60>>, <<10>>, <<34, 97>>, <<34, 92, 34>> }

FileRoutes ==
    { MkRoute(n, ms, action, target, mimic, pp, NoMessage, NoMessage) :
        n \in RouteNames,
        ms \in { <<>>, << <<97>> >>, << <<97, 58, 49>> >> },
        action \in {"", Forward, Reject, "drop"},
        target \in {<<>>, PlainTarget, SrvTarget},
        mimic \in {<<>>, <<109, 58, 50>>, <<109>>},
        pp \in {0, 2, 3} }
    \cup
    { MkRoute("foo", << <<97>> >>, action, PlainTarget, <<>>, 0, rejectMessage, dialFailMessage) :
        action \in {"", Reject},
        rejectMessage \in FileMessages, dialFailMessage \in FileMessages }

\* The Config as the file gives it, before Init.
FileConfigs ==
    { [Routes |-> <<r>>, routeMap |-> EmptyMap, defaultRoute |-> 0] : r \in FileRoutes }

InitConfig ==
    /\ config \in FileConfigs
    /\ router = [NoRouter EXCEPT !.main = "loading"]
    /\ lookup = NoLookup
    /\ CodecIdle
    /\ pc = "idle"
    /\ timer = "idle"
    /\ handshakeTimeout = FALSE
    /\ clientConn = NewOnce
    /\ targetConn = NewOnce
    /\ dialed = FALSE
    /\ hs = NoHandshake
    /\ hostnameTail = <<>>
    /\ exit = "none"
    /\ clientOut = <<>>
    /\ upstreamOut = <<>>
    /\ fwd = NoForward
    /\ served = 0
    /\ resolution = NoResolution
    /\ logged = {}

\* main: config.LoadConfigOrDie, that is Config.Init on the file's content:
\* the configuration is prepared, or a log.Fatalf ends the process.
LoadConfig ==
    /\ router.main = "loading"
    /\ IF ValidConfig(config.Routes)
       THEN /\ config' = ConfigInit(config.Routes)
            /\ router' = [router EXCEPT !.main = "loaded"]
            /\ logged' = logged
       ELSE /\ config' = config
            /\ router' = [router EXCEPT !.main = "fatal"]
            /\ logged' = logged \cup {"fatal"}
    /\ UNCHANGED <<lookup, codecVars, pc, timer, handshakeTimeout, clientConn, targetConn,
                   dialed, hs, hostnameTail, exit, clientOut, upstreamOut, fwd, served,
                   resolution>>

NextConfig == LoadConfig

SpecConfig == InitConfig /\ [][NextConfig]_vars

----------------------------------------------------------------------------
(* Configuration properties *)

\* What the documentation asks of a route: valid matches, a known action (or
\* none), a valid target when the route forwards, a valid target or none when
\* it rejects, a valid mimic or none, a PROXY protocol version in 0..2.
DocumentedRoute(route) ==
    /\ \A j \in 1..Len(route.Matches) : validateAddress(route.Matches[j], FALSE)
    /\ route.Action \in {"", Forward, Reject}
    /\ (route.Action # Reject => Len(route.Target) > 0)
    /\ (Len(route.Target) > 0 => validateAddress(route.Target, FALSE))
    /\ (Len(route.Mimic) > 0 => validateAddress(route.Mimic, TRUE))
    /\ route.ProxyProtocol \in 0..2

\* C17: Config.Init ends the process only for a configuration with a route
\* that breaks a documented rule; a reject route without a target breaks
\* none and is prepared.
C17_RejectWithoutTarget ==
    router.main = "fatal" =>
        \E i \in 1..Len(config.Routes) : ~DocumentedRoute(config.Routes[i])

HexValue(b) == IF b >= 97 THEN b - 87 ELSE IF b >= 65 THEN b - 55 ELSE b - 48

\* The bytes a JSON string body stands for (escapes of one byte only).
RECURSIVE JsonUnescape(_)
JsonUnescape(b) ==
    IF b = <<>> THEN <<>>
    ELSE IF b[1] # 92 THEN <<b[1]>> \o JsonUnescape(Tail(b))
    ELSE IF b[2] = 117
    THEN <<HexValue(b[5]) * 16 + HexValue(b[6])>> \o JsonUnescape(SubSeq(b, 7, Len(b)))
    ELSE << IF b[2] = 110 THEN 10 ELSE IF b[2] = 114 THEN 13 ELSE IF b[2] = 116 THEN 9
            ELSE IF b[2] = 98 THEN 8 ELSE IF b[2] = 102 THEN 12 ELSE b[2] >>
         \o JsonUnescape(SubSeq(b, 3, Len(b)))

\* J is a JSON string literal and the string it denotes is S.
StringLiteralOf(J, S) ==
    /\ Len(J) >= 2
    /\ J[1] = 34
    /\ JsonStringEnd(J, 2) = Len(J) + 1
    /\ JsonUnescape(SubSeq(J, 2, Len(J) - 1)) = S

\* The packet field J that belongs to the raw message S.
Normalized(S, J) ==
    IF Len(S) = 0
    THEN /\ J = <<>>
         /\ ~DisconnectGate([kind |-> "modern", NextState |-> HandshakeNextStateLogin], J)
    ELSE /\ JsonValid(S) => J = S
         /\ ~JsonValid(S) => StringLiteralOf(J, S)
         /\ JsonValid(J)
         /\ formatMessageJson(J) = J

\* C24: once Config.Init has prepared the configuration, each message field of
\* each route is the raw message itself when that is a JSON value and the JSON
\* string literal of the raw message otherwise; it is a JSON value, formatting
\* it again changes nothing, and the field of an unset message is empty, for
\* which no disconnect packet is emitted.
C24_MessageNormalization ==
    router.main = "loaded" =>
        \A i \in 1..Len(config.Routes) :
            /\ Normalized(config.Routes[i].RejectMessage, config.Routes[i].rejectMessageJson)
            /\ Normalized(config.Routes[i].DialFailMessage,
                          config.Routes[i].dialFailMessageJson)

\* A prepared route whose reject message a"b became the literal "a\"b", whose
\* dial-fail message {"text": "no"} was kept as it is.
C24_Witness ==
    /\ router.main = "loaded"
    /\ config.Routes[1].RejectMessage = <<97, 34, 98>>
    /\ config.Routes[1].rejectMessageJson = <<34, 97, 92, 34, 98, 34>>
    /\ config.Routes[1].DialFailMessage =
           <<123, 34, 116, 101, 120, 116, 34, 58, 32, 34, 110, 111, 34, 125>>
    /\ config.Routes[1].dialFailMessageJson = config.Routes[1].DialFailMessage

----------------------------------------------------------------------------
(* The round-trip specification: a value is written with the writing half of
   bufReadWriterImpl, other bytes may follow it in the buffer, and it is read
   back with the reading half. *)

MaxSmallValue == 130

\* Values of [0, 2^31): the small ones and those around each change of the
\* encoded length.
VarIntValues ==
    (0..MaxSmallValue)
    \cup {16383, 16384, 16385, 2097151, 2097152, 2097153,
          268435455, 268435456, 268435457, 2147483646, 2147483647}

\* Strings: "", "a", "ab", "a.b", "é" (U+00E9), "中" (U+4E2D), and one
\* outside the BMP, U+1F600.
Utf16Strings ==
    { <<>>, <<97>>, <<97, 98>>, <<97, 46, 98>>, <<195, 169>>, <<228, 184, 173>>,
      <<240, 159, 152, 128>> }

\* What follows the written value in the buffer.
TrailingBytes == { <<>>, <<0, 97>>, <<255, 255, 255, 255>> }

\* Bytes in front of a reader of var-ints: none to four bytes with the
\* continuation bit, a last byte with or without it and with payload bits in
\* and above the low four, and one byte more or none.
VarIntEncodings ==
    { prefix \o <<last>> \o after :
        prefix \in { <<>>, <<128>>, <<128, 128>>, <<128, 128, 128>>,
                     <<128, 128, 128, 128>>, <<255, 255, 255, 255>> },
        last \in {0, 1, 15, 16, 31, 64, 127, 128, 255},
        after \in { <<>>, <<1>> } }

\* A run of n bytes 0, 97, 0, 97, ...: n / 2 code units 'a'.
UnitRun(n) == [i \in 1..n |-> IF i % 2 = 1 THEN 0 ELSE 97]

\* Bytes in front of a reader of UTF-16BE strings: a count and units that
\* agree (0, 1 and 2 units, with a byte more or none), the legacy magic after
\* its first three bytes, a count larger than the units, the counts 16384 and
\* 32767 with as many units, and the count -1.
Utf16Encodings ==
    { <<0, 0>>, <<0, 0, 7>>, <<0, 1, 0, 97>>, <<0, 1, 0, 97, 7>>,
      <<0, 2, 0, 97, 0, 46>>, <<0, 1, 216, 61>>, <<0, 2, 216, 61, 222, 0>>,
      SubSeq(legacyServerPingHead, 4, 27),
      <<0, 2, 0, 97>>, <<0>>,
      <<64, 0>> \o UnitRun(32768), <<127, 255>> \o UnitRun(65534),
      <<255, 255>> }

\* Streams under a reader that is peeked and read step by step.
ReaderStreams == { <<>>, <<7>>, <<254, 1>>, <<7, 8, 9>>, <<1, 2, 3, 4>> }

\* Largest n of a Read(n) step.
MaxRead == 3

\* A reader on which nothing was called yet.
FreshReader(b) ==
    [kind |-> "reader", bytes |-> b, op |-> "new", n |-> 0,
     before |-> NewBufferReadWriter(b),
     r |-> Res("ok", <<>>, NewBufferReadWriter(b))]

\* A hostname of n letters 'a'.
LongHostname(n) == [i \in 1..n |-> 97]

\* Modern handshakes a client may send: protocols of one and two var-int
\* bytes and -1, hostnames "", "a", "a" NUL "F", and of 121, 247 and 248
\* letters (frames of 128, 254 and 255 bytes for a one-byte protocol), the
\* ports 0, 25565 and 65535, the next states 1 and 2.
ModernHandshakes ==
    { [kind |-> "modern", Protocol |-> a, Hostname |-> h, Port |-> p, NextState |-> n] :
        a \in {0, 47, 765, -1},
        h \in { <<>>, <<97>>, <<97, 0, 70>>,
                LongHostname(121), LongHostname(247), LongHostname(248) },
        p \in {0, 25565, 65535},
        n \in {HandshakeNextStateStatus, HandshakeNextStateLogin} }

InitRoundTrip ==
    /\ parsed \in { [kind |-> "value", v |-> v] : v \in VarIntValues }
                  \cup { [kind |-> "string", s |-> str] : str \in Utf16Strings }
                  \cup { [kind |-> "bytes", bytes |-> b] : b \in VarIntEncodings }
                  \cup { [kind |-> "units", bytes |-> b] : b \in Utf16Encodings }
                  \cup { FreshReader(b) : b \in ReaderStreams }
                  \cup { [kind |-> "packet", hs |-> h] : h \in ModernHandshakes }
    /\ stream = <<>>
    /\ RoutingIdle
    /\ ConnIdle

\* WriteVarInt(v) into a buffer, then ReadVarInt from it.
RoundTripVarInt ==
    /\ parsed.kind = "value"
    /\ \E trailing \in TrailingBytes :
         \E written \in {WriteVarInt(parsed.v)} :
            /\ stream' = written \o trailing
            /\ parsed' = [kind |-> "varint", v |-> parsed.v, written |-> written,
                          trailing |-> trailing,
                          r |-> ReadVarInt(NewBufferReadWriter(written \o trailing))]
    /\ UNCHANGED <<routingVars, connVars, router>>

\* WriteUTF16BE(s) into a buffer, then ReadUTF16BE from it.
RoundTripUTF16BE ==
    /\ parsed.kind = "string"
    /\ \E trailing \in TrailingBytes :
         \E written \in {WriteUTF16BE(parsed.s)} :
            /\ stream' = written \o trailing
            /\ parsed' = [kind |-> "utf16", s |-> parsed.s, written |-> written,
                          trailing |-> trailing,
                          r |-> ReadUTF16BE(NewBufferReadWriter(written \o trailing))]
    /\ UNCHANGED <<routingVars, connVars, router>>

\* ReadVarInt on bytes that no writer of this program produced.
DoReadVarInt ==
    /\ parsed.kind = "bytes"
    /\ stream' = parsed.bytes
    /\ parsed' = [kind |-> "decoded", bytes |-> parsed.bytes,
                  r |-> ReadVarInt(NewBufferReadWriter(parsed.bytes))]
    /\ UNCHANGED <<routingVars, connVars, router>>

\* ReadUTF16BE on bytes a client may send.
DoReadUTF16BE ==
    /\ parsed.kind = "units"
    /\ stream' = parsed.bytes
    /\ parsed' = [kind |-> "decoded16", bytes |-> parsed.bytes,
                  r |-> ReadUTF16BE(NewBufferReadWriter(parsed.bytes))]
    /\ UNCHANGED <<routingVars, connVars, router>>

\* One PeekByte on the reader; the reader before the call is kept beside
\* the result.
DoPeekByte ==
    /\ parsed.kind = "reader"
    /\ parsed.r.st # "panic"
    /\ stream' = parsed.bytes
    /\ parsed' = [parsed EXCEPT !.op = "peek", !.n = 0, !.before = parsed.r.rd,
                                !.r = PeekByte(parsed.r.rd)]
    /\ UNCHANGED <<routingVars, connVars, router>>

\* One Read(n) on the reader.
DoRead ==
    /\ parsed.kind = "reader"
    /\ parsed.r.st # "panic"
    /\ \E n \in 0..MaxRead :
          parsed' = [parsed EXCEPT !.op = "read", !.n = n, !.before = parsed.r.rd,
                                   !.r = Read(parsed.r.rd, n)]
    /\ stream' = parsed.bytes
    /\ UNCHANGED <<routingVars, connVars, router>>

\* WritePacket of a handshake, then ReadHandshakePacket on the bytes written.
RoundTripHandshake ==
    /\ parsed.kind = "packet"
    /\ \E bytes \in {WritePacket(parsed.hs)} :
          /\ stream' = bytes
          /\ parsed' = [kind |-> "reread", hs |-> parsed.hs, bytes |-> bytes,
                        r |-> ReadHandshakePacket(bytes)]
    /\ UNCHANGED <<routingVars, connVars, router>>

NextRoundTrip ==
    \/ RoundTripHandshake
    \/ DoReadVarInt
    \/ DoReadUTF16BE
    \/ DoPeekByte
    \/ DoRead
    \/ RoundTripVarInt
    \/ RoundTripUTF16BE

SpecRoundTrip == InitRoundTrip /\ [][NextRoundTrip]_vars

----------------------------------------------------------------------------
(* Round-trip properties *)

\* The length of the minimal var-int form of a value of [0, 2^31).
MinimalLength(v) ==
    IF v < 128 THEN 1
    ELSE IF v < 16384 THEN 2
    ELSE IF v < 2097152 THEN 3
    ELSE IF v < 268435456 THEN 4
    ELSE 5

\* C18: for a value of [0, 2^31), ReadVarInt on the bytes WriteVarInt wrote
\* returns the value and leaves in the buffer exactly what followed them, and
\* WriteVarInt wrote the minimal number of bytes.
C18_VarIntRoundTrip ==
    parsed.kind = "varint" =>
        /\ parsed.r.st = "ok"
        /\ parsed.r.v = parsed.v
        /\ parsed.r.rd.buf = parsed.trailing
        /\ Len(parsed.written) = MinimalLength(parsed.v)

\* 2097152 was written as four bytes and read back in front of other bytes.
C18_Witness ==
    /\ parsed.kind = "varint"
    /\ parsed.v = 2097152
    /\ parsed.written = <<128, 128, 128, 1>>
    /\ parsed.trailing = <<255, 255, 255, 255>>
    /\ parsed.r.v = 2097152

\* The runes of a string are all in the BMP: it encodes to as many UTF-16
\* units as it has runes.
RECURSIVE RuneCount(_)
RuneCount(str) ==
    IF str = <<>> THEN 0
    ELSE 1 + RuneCount(SubSeq(str, DecodeRune(str).n + 1, Len(str)))

OnlyBMP(str) == Len(StringToUtf16(str)) = RuneCount(str)

\* C19: for a string of BMP code points, ReadUTF16BE on the bytes
\* WriteUTF16BE wrote returns the string and leaves in the buffer exactly
\* what followed them.
C19_Utf16RoundTrip ==
    (parsed.kind = "utf16" /\ OnlyBMP(parsed.s)) =>
        /\ parsed.r.st = "ok"
        /\ parsed.r.v = parsed.s
        /\ parsed.r.rd.buf = parsed.trailing

\* The bytes have a fifth byte after four bytes with the continuation bit.
FiveBytes ==
    /\ Len(parsed.bytes) >= 5
    /\ \A i \in 1..4 : parsed.bytes[i] >= 128

\* C30 (as claimed): ReadVarInt takes at most five bytes, and it returns an
\* error for a fifth byte with the continuation bit and for a fifth byte
\* whose payload has a bit above the low four.
C30_VarIntOverflowRefused ==
    parsed.kind = "decoded" =>
        /\ Len(parsed.bytes) - Len(parsed.r.rd.buf) <= 5
        /\ (FiveBytes /\ (parsed.bytes[5] >= 128 \/ parsed.bytes[5] % 128 >= 16))
              => parsed.r.st = "err"

\* The count at the head of the bytes, as an i16.
UnitCount == ToInt16(parsed.bytes[1] * 256 + parsed.bytes[2])

\* The bytes hold a count of 0..32767 and at least that many code units.
CountedUnits ==
    /\ parsed.kind = "decoded16"
    /\ Len(parsed.bytes) >= 2
    /\ UnitCount >= 0
    /\ Len(parsed.bytes) >= 2 + 2 * UnitCount

\* C31 (as claimed): for every count c of 0..32767 followed by c code units,
\* ReadUTF16BE takes the count and exactly 2 c bytes and returns the c units
\* decoded; on the legacy magic after its first three bytes it returns
\* "MC|PingHost".
C31_Utf16CountedRead ==
    CountedUnits =>
        /\ parsed.r.st = "ok"
        /\ Len(parsed.r.rd.buf) = Len(parsed.bytes) - 2 - 2 * UnitCount
        /\ parsed.r.v =
              Utf16ToString(BytesToUnits(SubSeq(parsed.bytes, 3, 2 + 2 * UnitCount)))
        /\ (parsed.bytes = SubSeq(legacyServerPingHead, 4, 27) =>
              parsed.r.v = <<77, 67, 124, 80, 105, 110, 103, 72, 111, 115, 116>>)

\* The bytes of the stream that the calls so far have not returned.
Unreturned(rd) == rd.peek \o rd.buf

\* PeekByte was called and the stream had a byte left.
PeekedByte ==
    /\ parsed.kind = "reader"
    /\ parsed.op = "peek"
    /\ Unreturned(parsed.before) # <<>>

\* Read(n) with n >= 1 was called right after a PeekByte that returned a byte.
ReadAfterPeek ==
    /\ parsed.kind = "reader"
    /\ parsed.op = "read"
    /\ parsed.n >= 1
    /\ parsed.before.peek # <<>>

\* C32: PeekByte returns the next byte of the stream and leaves the consumed
\* counter alone; a PeekByte after a PeekByte returns the same byte and does
\* not touch the stream; the next Read(n), n >= 1, returns n bytes that start
\* with the peeked byte and adds exactly n to the counter; a Read that finds
\* fewer than n bytes is an error and leaves the counter unchanged.
C32_PeekThenRead ==
    /\ PeekedByte =>
          /\ parsed.r.st = "ok"
          /\ parsed.r.v = Unreturned(parsed.before)[1]
          /\ parsed.r.v = parsed.bytes[parsed.before.readLen + 1]
          /\ parsed.r.rd.readLen = parsed.before.readLen
          /\ Unreturned(parsed.r.rd) = Unreturned(parsed.before)
          /\ (parsed.before.peek # <<>> => parsed.r.rd = parsed.before)
    /\ (ReadAfterPeek /\ Len(Unreturned(parsed.before)) >= parsed.n) =>
          /\ parsed.r.st = "ok"
          /\ Len(parsed.r.v) = parsed.n
          /\ parsed.r.v[1] = parsed.before.peek[1]
          /\ parsed.r.v = SubSeq(parsed.bytes, parsed.before.readLen + 1,
                                 parsed.before.readLen + parsed.n)
          /\ parsed.r.rd.readLen = parsed.before.readLen + parsed.n
          /\ parsed.r.rd.peek = <<>>
    /\ (parsed.kind = "reader" /\ parsed.op = "read" /\ parsed.n >= 1
          /\ Len(Unreturned(parsed.before)) < parsed.n) =>
          /\ parsed.r.st = "err"
          /\ parsed.r.rd.readLen = parsed.before.readLen

\* A Read(2) after two PeekByte calls returned two bytes of the stream.
C32_Witness ==
    /\ ReadAfterPeek
    /\ parsed.n = 2
    /\ parsed.r.st = "ok"
    /\ parsed.r.v = <<254, 1>>
    /\ parsed.r.rd.readLen = 2

\* C37 (as claimed): for every modern handshake, ReadHandshakePacket on the
\* bytes WritePacket produced returns that handshake and leaves no byte,
\* whatever the length of the frame, a length whose var-int starts with the
\* byte 254 included.
C37_HandshakeRoundTrip ==
    parsed.kind = "reread" =>
        /\ parsed.r.kind = "handshake"
        /\ parsed.r.hs = parsed.hs
        /\ parsed.r.rest = <<>>

====
